---- MODULE Spec2Model ----
(***************************************************************************)
(* Address Lookup Table program (solana-program/address-lookup-table).     *)
(*                                                                         *)
(* The model follows program/src/processor.rs and program/src/state.rs.    *)
(* Account data is a sequence of bytes, a Pubkey is its 32 bytes and a u64 *)
(* is its 8 little-endian bytes, so that u64::MAX, the bincode layout and  *)
(* 64-bit overflow are exact.  One lookup table account, one payer and one *)
(* recipient account are followed through the five instructions while the  *)
(* Clock and SlotHashes sysvars advance.                                   *)
(***************************************************************************)
EXTENDS Integers, Sequences, FiniteSets, TLC

VARIABLES
    slot,          \* Clock sysvar: the slot of the bank executing instructions
    slot_hashes,   \* SlotHashes sysvar: slots of the ancestor banks, newest first
    table,         \* the lookup table account: [owner, lamports, data]
    payer,         \* lamports of the payer account (u64)
    recipient,     \* lamports of the recipient account (u64)
    last,          \* the instruction executed by the last step and its result
    hist,          \* history of the table account (what has happened to it so far)
    probe          \* a call of a function of state.rs: its arguments and its result

vars == <<slot, slot_hashes, table, payer, recipient, last, hist, probe>>

(***************************************************************************)
(* Program constants.                                                      *)
(***************************************************************************)
LOOKUP_TABLE_MAX_ADDRESSES == 256
LOOKUP_TABLE_META_SIZE == 56
PUBKEY_BYTES == 32
\* solana_program::slot_hashes::MAX_ENTRIES, as the tests and comments of the
\* repository state it (512 slot hashes).
MAX_ENTRIES == 512
MAX_INPUT_LEN == 1232
MAX_NEW_KEYS_VECTOR_LEN == (MAX_INPUT_LEN - 4 - 8) \div 32

(***************************************************************************)
(* Bytes and fixed-width little-endian integers.                           *)
(***************************************************************************)
Byte == 0..255

Min(a, b) == IF a < b THEN a ELSE b
Max(a, b) == IF a < b THEN b ELSE a

Zeros(n) == [i \in 1..n |-> 0]

\* The 8 little-endian bytes of n, for 0 <= n < 2^31 (all the model counts in).
U64(n) ==
    [i \in 1..8 |->
        CASE i = 1 -> n % 256
          [] i = 2 -> (n \div 256) % 256
          [] i = 3 -> (n \div 65536) % 256
          [] i = 4 -> (n \div 16777216) % 256
          [] OTHER -> 0]

U64_MAX == [i \in 1..8 |-> 255]
U64_ZERO == [i \in 1..8 |-> 0]

\* Carry out of byte i when adding the u64 values a and b.
RECURSIVE AddCarry(_, _, _)
AddCarry(a, b, i) ==
    IF i = 0 THEN 0 ELSE (a[i] + b[i] + AddCarry(a, b, i - 1)) \div 256

\* Borrow out of byte i when subtracting the u64 value b from a.
RECURSIVE SubBorrow(_, _, _)
SubBorrow(a, b, i) ==
    IF i = 0 THEN 0
    ELSE IF a[i] - b[i] - SubBorrow(a, b, i - 1) < 0 THEN 1 ELSE 0

U64WrappingAdd(a, b) ==
    [i \in 1..8 |-> (a[i] + b[i] + AddCarry(a, b, i - 1)) % 256]

U64WrappingSub(a, b) ==
    [i \in 1..8 |-> (a[i] - b[i] - SubBorrow(a, b, i - 1) + 256) % 256]

U64Lt(a, b) == SubBorrow(a, b, 8) = 1
U64Le(a, b) == ~U64Lt(b, a)

\* Option<T>: None, or Some(x).
None == <<>>
Some(x) == <<x>>
IsSome(o) == o # <<>>
Unwrap(o) == o[1]

\* u64::checked_add: None on overflow.
U64CheckedAdd(a, b) ==
    IF AddCarry(a, b, 8) = 1 THEN None ELSE Some(U64WrappingAdd(a, b))

\* u64::saturating_sub
U64SaturatingSub(a, b) ==
    IF U64Lt(a, b) THEN U64_ZERO ELSE U64WrappingSub(a, b)

\* u64::max
U64Max(a, b) == IF U64Lt(a, b) THEN b ELSE a

\* The number a u64 holds, for values below 2^31.
U64ToNat(a) == a[1] + 256 * a[2] + 65536 * a[3] + 16777216 * a[4]

U32LE(n) == [i \in 1..4 |-> IF i = 1 THEN n % 256 ELSE IF i = 2 THEN (n \div 256) % 256 ELSE 0]
U16LE(n) == <<n % 256, (n \div 256) % 256>>
U16OfLE(b) == b[1] + 256 * b[2]

\* A Pubkey is 32 bytes; the model's keys are the 32-byte strings of one byte
\* value each.
Pubkey(k) == [i \in 1..PUBKEY_BYTES |-> k]

Take(s, n) == SubSeq(s, 1, Min(n, Len(s)))
Drop(s, n) == SubSeq(s, n + 1, Len(s))

\* The bytes of a sequence of keys, one key after the other.
Flatten(ss) ==
    [i \in 1..(Len(ss) * PUBKEY_BYTES) |->
        ss[((i - 1) \div PUBKEY_BYTES) + 1][((i - 1) % PUBKEY_BYTES) + 1]]


(***************************************************************************)
(* State codec (program/src/state.rs).                                     *)
(*                                                                         *)
(* A LookupTableMeta in memory is the record                               *)
(*   [deactivation_slot, last_extended_slot : u64,                         *)
(*    last_extended_slot_start_index : u8, authority : Option<Pubkey>,     *)
(*    padding : u16].                                                      *)
(* A fallible function returns a record whose err field is "Ok" or the     *)
(* name of the ProgramError.                                               *)
(***************************************************************************)

\* LookupTableMeta::default
LookupTableMetaDefault ==
    [deactivation_slot |-> U64_MAX,
     last_extended_slot |-> U64_ZERO,
     last_extended_slot_start_index |-> 0,
     authority |-> None,
     padding |-> 0]

\* LookupTableMeta::new without the authority: the default meta.
LookupTableMetaNew_Default(authority) == LookupTableMetaDefault

\* LookupTableMeta::new
LookupTableMetaNew(authority) ==
    [LookupTableMetaDefault EXCEPT !.authority = Some(authority)]

\* An Option<Pubkey> written at a fixed width: the presence byte and 32
\* bytes, zero when the key is absent.
SerializeOptionPubkey_FixedWidth(authority) ==
    IF authority = None THEN <<0>> \o Zeros(PUBKEY_BYTES) ELSE <<1>> \o Unwrap(authority)

\* bincode of Option<Pubkey>: a presence byte, then the 32 bytes when present.
SerializeOptionPubkey(authority) ==
    IF authority = None THEN <<0>> ELSE <<1>> \o Unwrap(authority)

\* bincode of LookupTableMeta: the fields in declaration order, fixed-width
\* little-endian.
SerializeMeta(meta) ==
    meta.deactivation_slot
        \o meta.last_extended_slot
        \o <<meta.last_extended_slot_start_index>>
        \o SerializeOptionPubkey(meta.authority)
        \o U16LE(meta.padding)

\* bincode of ProgramState: the 4-byte little-endian variant index, then the
\* variant's payload.  A state is [tag |-> "Uninitialized"] or
\* [tag |-> "LookupTable", meta |-> ...].
SerializeProgramState(state) ==
    IF state.tag = "Uninitialized" THEN U32LE(0)
    ELSE U32LE(1) \o SerializeMeta(state.meta)

\* bincode::serialize_into(&mut [u8], value): the value's bytes are written at
\* the start of the slice; an error when the slice is too short.
SerializeInto(data, bytes) ==
    IF Len(bytes) > Len(data) THEN [err |-> "InvalidAccountData", data |-> data]
    ELSE [err |-> "Ok",
          data |-> [i \in 1..Len(data) |-> IF i <= Len(bytes) THEN bytes[i] ELSE data[i]]]

\* bincode::deserialize::<ProgramState>(data): trailing bytes are allowed.
DeserializeProgramState(data) ==
    IF Len(data) < 4 THEN [err |-> "InvalidAccountData"]
    ELSE IF SubSeq(data, 1, 4) = U32LE(0) THEN [err |-> "Ok", state |-> [tag |-> "Uninitialized"]]
    ELSE IF SubSeq(data, 1, 4) # U32LE(1) THEN [err |-> "InvalidAccountData"]
    ELSE IF Len(data) < 22 THEN [err |-> "InvalidAccountData"]
    ELSE IF data[22] \notin {0, 1} THEN [err |-> "InvalidAccountData"]
    ELSE
        LET some == data[22] = 1
            pad == IF some THEN 54 ELSE 22
        IN  IF Len(data) < pad + 2 THEN [err |-> "InvalidAccountData"]
            ELSE [err |-> "Ok",
                  state |->
                    [tag |-> "LookupTable",
                     meta |->
                       [deactivation_slot |-> SubSeq(data, 5, 12),
                        last_extended_slot |-> SubSeq(data, 13, 20),
                        last_extended_slot_start_index |-> data[21],
                        authority |-> IF some THEN Some(SubSeq(data, 23, 54)) ELSE None,
                        padding |-> U16OfLE(SubSeq(data, pad + 1, pad + 2))]]]

\* ProgramState::serialize_new_lookup_table
serialize_new_lookup_table(data, authority_key) ==
    LET lookup_table == [tag |-> "LookupTable", meta |-> LookupTableMetaNew(authority_key)]
        bytes == SerializeProgramState(lookup_table)
    IN  IF Len(bytes) > Len(data) THEN [err |-> "AccountDataTooSmall", data |-> data]
        ELSE SerializeInto(data, bytes)

\* overwrite_meta_data with the fill(0) applied to the whole of the data
\* rather than to its first LOOKUP_TABLE_META_SIZE bytes.
overwrite_meta_data_FillAll(data, lookup_table_meta) ==
    IF Len(data) < LOOKUP_TABLE_META_SIZE THEN [err |-> "InvalidAccountData", data |-> data]
    ELSE SerializeInto(Zeros(Len(data)),
             SerializeProgramState([tag |-> "LookupTable", meta |-> lookup_table_meta]))

\* overwrite_meta_data without the fill(0) of line 188: the bytes the new
\* meta does not cover keep what they held.
overwrite_meta_data_NoFill(data, lookup_table_meta) ==
    IF Len(data) < LOOKUP_TABLE_META_SIZE THEN [err |-> "InvalidAccountData", data |-> data]
    ELSE
        LET r == SerializeInto(SubSeq(data, 1, LOOKUP_TABLE_META_SIZE),
                     SerializeProgramState([tag |-> "LookupTable", meta |-> lookup_table_meta]))
        IN  [err |-> r.err,
             data |-> r.data \o SubSeq(data, LOOKUP_TABLE_META_SIZE + 1, Len(data))]

\* AddressLookupTable::overwrite_meta_data
overwrite_meta_data(data, lookup_table_meta) ==
    IF Len(data) < LOOKUP_TABLE_META_SIZE THEN [err |-> "InvalidAccountData", data |-> data]
    ELSE
        LET filled == Zeros(LOOKUP_TABLE_META_SIZE)
            r == SerializeInto(filled,
                     SerializeProgramState([tag |-> "LookupTable", meta |-> lookup_table_meta]))
        IN  [err |-> r.err,
             data |-> r.data \o SubSeq(data, LOOKUP_TABLE_META_SIZE + 1, Len(data))]

\* bytemuck::try_cast_slice::<u8, Pubkey>: the bytes as 32-byte keys; an error
\* unless the length is a multiple of 32.
CastPubkeys(raw) ==
    IF Len(raw) % PUBKEY_BYTES # 0 THEN [err |-> "InvalidAccountData"]
    ELSE [err |-> "Ok",
          addresses |->
            [i \in 1..(Len(raw) \div PUBKEY_BYTES) |->
                SubSeq(raw, (i - 1) * PUBKEY_BYTES + 1, i * PUBKEY_BYTES)]]

\* AddressLookupTable::deserialize
deserialize(data) ==
    LET program_state == DeserializeProgramState(data)
    IN  IF program_state.err # "Ok" THEN [err |-> "InvalidAccountData"]
        ELSE IF program_state.state.tag = "Uninitialized" THEN [err |-> "UninitializedAccount"]
        ELSE IF Len(data) < LOOKUP_TABLE_META_SIZE THEN [err |-> "InvalidAccountData"]
        ELSE
            LET cast == CastPubkeys(SubSeq(data, LOOKUP_TABLE_META_SIZE + 1, Len(data)))
            IN  IF cast.err # "Ok" THEN [err |-> "InvalidAccountData"]
                ELSE [err |-> "Ok",
                      meta |-> program_state.state.meta,
                      addresses |-> cast.addresses]

\* The slice taken with the offset refused only past the end of the data
\* (> for >= in line 262): the offset of the end gives an empty slice.
deserialize_addresses_from_index_mut_PastEnd(data, index) ==
    LET offset == LOOKUP_TABLE_META_SIZE + index * PUBKEY_BYTES
    IN  IF offset > Len(data) THEN [err |-> "InvalidArgument"]
        ELSE IF (Len(data) - offset) % PUBKEY_BYTES # 0 THEN [err |-> "InvalidAccountData"]
        ELSE [err |-> "Ok", offset |-> offset, len |-> (Len(data) - offset) \div PUBKEY_BYTES]

\* AddressLookupTable::deserialize_addresses_from_index_mut: the offset of the
\* mutable address slice that starts at `index` (the slice runs to the end of
\* the data), and its length in keys.
deserialize_addresses_from_index_mut(data, index) ==
    LET offset == LOOKUP_TABLE_META_SIZE + index * PUBKEY_BYTES
    IN  IF offset >= Len(data) THEN [err |-> "InvalidArgument"]
        ELSE IF (Len(data) - offset) % PUBKEY_BYTES # 0 THEN [err |-> "InvalidAccountData"]
        ELSE [err |-> "Ok", offset |-> offset, len |-> (Len(data) - offset) \div PUBKEY_BYTES]

\* AddressLookupTable::serialize_for_tests
serialize_for_tests(lookup_table) ==
    LET r == overwrite_meta_data(Zeros(LOOKUP_TABLE_META_SIZE), lookup_table.meta)
    IN  [err |-> r.err, data |-> r.data \o Flatten(lookup_table.addresses)]


(***************************************************************************)
(* Lifecycle model: the status of a table.                                 *)
(* A status is [kind |-> "Activated"], [kind |-> "Deactivated"] or         *)
(* [kind |-> "Deactivating", remaining_blocks |-> n].                      *)
(***************************************************************************)
Activated == [kind |-> "Activated", remaining_blocks |-> 0]
Deactivated == [kind |-> "Deactivated", remaining_blocks |-> 0]
Deactivating(n) == [kind |-> "Deactivating", remaining_blocks |-> n]

\* slice::binary_search_by over the slot hashes, which are sorted from the
\* newest slot to the oldest, with the comparison `slot.cmp(this)`: the
\* 0-based index of `target` within hashes[lo+1..hi], or None.
RECURSIVE BinarySearch(_, _, _, _)
BinarySearch(hashes, target, lo, hi) ==
    IF lo >= hi THEN None
    ELSE
        LET mid == lo + (hi - lo) \div 2
            this == U64(hashes[mid + 1])
        IN  IF target = this THEN Some(mid)
            ELSE IF U64Lt(target, this) THEN BinarySearch(hashes, target, mid + 1, hi)
            ELSE BinarySearch(hashes, target, lo, mid)

\* SlotHashesSysvar::position / PodSlotHashes::position
SlotHashesPosition(hashes, target_slot) == BinarySearch(hashes, target_slot, 0, Len(hashes))

\* A sysvar lookup that finds every slot.
SlotHashesGet_Any(hashes, target_slot) == Some(0)

\* SlotHashesSysvar::get(..).is_some() / PodSlotHashes::get
SlotHashesGet(hashes, target_slot) == BinarySearch(hashes, target_slot, 0, Len(hashes))

\* get_lookup_table_status without the Activated case of line 41: a
\* deactivation_slot of MAX is looked for in the slot hashes like any other.
get_lookup_table_status_NoActivated(deactivation_slot, current_slot, hashes) ==
    IF deactivation_slot = current_slot THEN Deactivating(MAX_ENTRIES + 1)
    ELSE
        LET slot_position == SlotHashesPosition(hashes, deactivation_slot)
        IN  IF IsSome(slot_position)
            THEN Deactivating(Max(MAX_ENTRIES - Unwrap(slot_position), 0))
            ELSE Deactivated

\* get_lookup_table_status reporting a table whose deactivation slot has
\* left the slot hashes as still deactivating.
get_lookup_table_status_StillDeactivating(deactivation_slot, current_slot, hashes) ==
    IF deactivation_slot = U64_MAX THEN Activated
    ELSE IF deactivation_slot = current_slot THEN Deactivating(MAX_ENTRIES + 1)
    ELSE
        LET slot_position == SlotHashesPosition(hashes, deactivation_slot)
        IN  IF IsSome(slot_position)
            THEN Deactivating(Max(MAX_ENTRIES - Unwrap(slot_position), 0))
            ELSE Deactivating(0)

\* processor.rs get_lookup_table_status: the status the close handler uses,
\* from the SlotHashes sysvar.
get_lookup_table_status(deactivation_slot, current_slot, hashes) ==
    IF deactivation_slot = U64_MAX THEN Activated
    ELSE IF deactivation_slot = current_slot THEN Deactivating(MAX_ENTRIES + 1)
    ELSE
        LET slot_position == SlotHashesPosition(hashes, deactivation_slot)
        IN  IF IsSome(slot_position)
            THEN Deactivating(Max(MAX_ENTRIES - Unwrap(slot_position), 0))
            ELSE Deactivated

\* calculate_slot_position with > for >= in line 29.
calculate_slot_position_Late(target_slot, current_slot) ==
    LET position == U64SaturatingSub(current_slot, target_slot)
    IN  IF U64Lt(U64(MAX_ENTRIES), position) THEN None
        ELSE Some(U64ToNat(position))

\* calculate_slot_position over two windows of MAX_ENTRIES slots: the table
\* counts as deactivating for twice as long.
calculate_slot_position_TwoWindows(target_slot, current_slot) ==
    LET position == U64SaturatingSub(current_slot, target_slot)
    IN  IF U64Le(U64(2 * MAX_ENTRIES), position) THEN None
        ELSE Some(U64ToNat(position))

\* state.rs calculate_slot_position
calculate_slot_position(target_slot, current_slot) ==
    LET position == U64SaturatingSub(current_slot, target_slot)
    IN  IF U64Le(U64(MAX_ENTRIES), position) THEN None
        ELSE Some(U64ToNat(position))

\* state.rs LookupTableMeta::status: the status the lookup uses, from the slot
\* numbers alone.
status(meta, current_slot) ==
    IF meta.deactivation_slot = U64_MAX THEN Activated
    ELSE IF meta.deactivation_slot = current_slot THEN Deactivating(MAX_ENTRIES)
    ELSE
        LET slot_position == calculate_slot_position(meta.deactivation_slot, current_slot)
        IN  IF IsSome(slot_position)
            THEN Deactivating(Max(MAX_ENTRIES - Unwrap(slot_position), 0))
            ELSE Deactivated

\* is_active with a deactivating table counted as inactive.
is_active_ActivatedOnly(meta, current_slot) ==
    status(meta, current_slot).kind = "Activated"

\* state.rs LookupTableMeta::is_active
is_active(meta, current_slot) ==
    status(meta, current_slot).kind \in {"Activated", "Deactivating"}

\* state.rs AddressLookupTable::get_active_addresses_len
get_active_addresses_len(lookup_table, current_slot) ==
    IF ~is_active(lookup_table.meta, current_slot)
    THEN [err |-> "LookupTableAccountNotFound"]
    ELSE [err |-> "Ok",
          len |-> IF U64Lt(lookup_table.meta.last_extended_slot, current_slot)
                  THEN Len(lookup_table.addresses)
                  ELSE lookup_table.meta.last_extended_slot_start_index]

\* state.rs AddressLookupTable::lookup.  The slice addresses[0..len] panics
\* when len exceeds the number of addresses.
lookup(lookup_table, current_slot, indexes) ==
    LET active == get_active_addresses_len(lookup_table, current_slot)
    IN  IF active.err # "Ok" THEN [err |-> active.err]
        ELSE IF active.len > Len(lookup_table.addresses) THEN [err |-> "panic"]
        ELSE IF \E i \in 1..Len(indexes) : indexes[i] >= active.len
        THEN [err |-> "InvalidLookupIndex"]
        ELSE [err |-> "Ok",
              addresses |-> [i \in 1..Len(indexes) |-> lookup_table.addresses[indexes[i] + 1]]]


(***************************************************************************)
(* Accounts, sysvars and the system program, as the handlers see them.     *)
(*                                                                         *)
(* The table account is [owner, lamports, data]; its key is fixed, and is  *)
(* the address derived from TableSeeds.  An instruction is a record of the *)
(* handler's inputs: the number of accounts passed (n_accounts), the key   *)
(* and signer flag of the authority account, the writable flags, and the   *)
(* instruction data.                                                       *)
(***************************************************************************)
SystemProgram == "system"
ProgramId == "address_lookup_table"

AuthorityA == Pubkey(1)
AuthorityB == Pubkey(2)
TableKey == Pubkey(9)

\* The seeds the table's address is derived from: the authority, the recent
\* slot and the bump seed.
TableSeeds == [authority |-> AuthorityA, recent_slot |-> U64(0), bump_seed |-> 255]

\* Bump seeds for which the derived address lies on the curve, so that the
\* derivation fails with PubkeyError::InvalidSeeds.
OnCurveBumps == {254}

\* Pubkey::create_program_address(&[authority, recent_slot.to_le_bytes(), [bump]], program_id),
\* mapped through AddressLookupTableError::from: a hash of the seeds, here
\* the table's key for the table's seeds and another address otherwise.
create_program_address(authority, derivation_slot, bump_seed) ==
    IF bump_seed \in OnCurveBumps THEN [err |-> "Custom(1)"]
    ELSE IF [authority |-> authority, recent_slot |-> derivation_slot, bump_seed |-> bump_seed]
                = TableSeeds
    THEN [err |-> "Ok", key |-> TableKey]
    ELSE [err |-> "Ok", key |-> Pubkey(0)]

\* Rent::default(): 3480 lamports per byte-year, exempt after 2 years, 128
\* bytes of storage overhead per account.
DEFAULT_LAMPORTS_PER_BYTE_YEAR == 3480
DEFAULT_EXEMPTION_THRESHOLD == 2
ACCOUNT_STORAGE_OVERHEAD == 128

\* Rent::minimum_balance
minimum_balance(data_len) ==
    U64((ACCOUNT_STORAGE_OVERHEAD + data_len) * DEFAULT_LAMPORTS_PER_BYTE_YEAR
            * DEFAULT_EXEMPTION_THRESHOLD)

\* rent.minimum_balance(len).max(1).saturating_sub(lamports)
RequiredLamports(data_len, lamports) ==
    U64SaturatingSub(U64Max(minimum_balance(data_len), U64(1)), lamports)

\* system_instruction::transfer, invoked: Custom(1) (the system program's
\* ResultWithNegativeLamports) when the payer holds less than the amount.
SystemTransfer(from_lamports, to_lamports, amount) ==
    IF U64Lt(from_lamports, amount)
    THEN [err |-> "Custom(1)", from |-> from_lamports, to |-> to_lamports]
    ELSE IF U64CheckedAdd(to_lamports, amount) = None
    THEN [err |-> "ArithmeticOverflow", from |-> from_lamports, to |-> to_lamports]
    ELSE [err |-> "Ok",
          from |-> U64WrappingSub(from_lamports, amount),
          to |-> Unwrap(U64CheckedAdd(to_lamports, amount))]

\* system_instruction::allocate, invoked with the derived seeds: Custom(0)
\* (AccountAlreadyInUse) unless the account is empty and owned by the system
\* program.
SystemAllocate(tbl, space) ==
    IF tbl.data # <<>> \/ tbl.owner # SystemProgram
    THEN [err |-> "Custom(0)", table |-> tbl]
    ELSE [err |-> "Ok", table |-> [tbl EXCEPT !.data = Zeros(space)]]

\* system_instruction::assign, invoked with the derived seeds.
SystemAssign(tbl, owner) == [tbl EXCEPT !.owner = owner]

\* AccountInfo::realloc(new_len, _): the data cut or zero-extended to new_len.
Realloc(data, new_len) ==
    [i \in 1..new_len |-> IF i <= Len(data) THEN data[i] ELSE 0]

\* What a handler returns: the ProgramResult and the accounts as it left them
\* (the runtime keeps them only when the result is Ok).
Result(err, tbl, pay, rcp) == [err |-> err, table |-> tbl, payer |-> pay, recipient |-> rcp]


(***************************************************************************)
(* Instruction decoder (program/src/processor.rs, instruction.rs).         *)
(*                                                                         *)
(* An AddressLookupTableInstruction is the record of its variant and of    *)
(* the variant's fields (the fields of the other variants are left at 0    *)
(* and empty).  Instruction data is a sequence of bytes in bincode's       *)
(* fixed-width little-endian encoding: the 4-byte variant index, then the  *)
(* fields; a Vec is its 8-byte length and its elements, a Pubkey its 32    *)
(* bytes.                                                                  *)
(***************************************************************************)
CreateLookupTable(recent_slot, bump_seed) ==
    [tag |-> "CreateLookupTable", recent_slot |-> recent_slot, bump_seed |-> bump_seed,
     new_addresses |-> <<>>]

FreezeLookupTable ==
    [tag |-> "FreezeLookupTable", recent_slot |-> U64_ZERO, bump_seed |-> 0,
     new_addresses |-> <<>>]

ExtendLookupTable(new_addresses) ==
    [tag |-> "ExtendLookupTable", recent_slot |-> U64_ZERO, bump_seed |-> 0,
     new_addresses |-> new_addresses]

DeactivateLookupTable ==
    [tag |-> "DeactivateLookupTable", recent_slot |-> U64_ZERO, bump_seed |-> 0,
     new_addresses |-> <<>>]

CloseLookupTable ==
    [tag |-> "CloseLookupTable", recent_slot |-> U64_ZERO, bump_seed |-> 0,
     new_addresses |-> <<>>]

\* Instruction::new_with_bincode: bincode::serialize of the instruction.
SerializeInstruction(instruction) ==
    CASE instruction.tag = "CreateLookupTable" ->
            U32LE(0) \o instruction.recent_slot \o <<instruction.bump_seed>>
      [] instruction.tag = "FreezeLookupTable" -> U32LE(1)
      [] instruction.tag = "ExtendLookupTable" ->
            U32LE(2) \o U64(Len(instruction.new_addresses))
                \o Flatten(instruction.new_addresses)
      [] instruction.tag = "DeactivateLookupTable" -> U32LE(3)
      [] instruction.tag = "CloseLookupTable" -> U32LE(4)

DecodeError == [err |-> "InvalidInstructionData"]

\* bincode::deserialize::<InstructionStub>(input): the variant index and,
\* for ExtendLookupTable, the vector length; the bytes after them are not
\* read.  The result is the variant index and the vector length (0 for
\* the variants without one).
DeserializeInstructionStub(input) ==
    IF Len(input) < 4 THEN DecodeError
    ELSE
        LET variant == SubSeq(input, 1, 4)
        IN  IF variant = U32LE(2)
            THEN IF Len(input) < 12 THEN DecodeError
                 ELSE [err |-> "Ok", variant |-> 2, vector_len |-> SubSeq(input, 5, 12)]
            ELSE IF \E v \in {0, 1, 3, 4} : variant = U32LE(v)
            THEN [err |-> "Ok", variant |-> variant[1], vector_len |-> U64_ZERO]
            ELSE DecodeError

\* solana_program::program_utils::limited_deserialize(input, limit):
\* bincode with fixed-width integers, a limit on the number of bytes the
\* deserializer reads, and trailing bytes allowed.  A read fails when it
\* would pass the limit or the end of the input; the bytes after the last
\* field are never read.
limited_deserialize(input, limit) ==
    LET Readable(n) == n <= limit /\ n <= Len(input)
    IN  IF ~Readable(4) THEN DecodeError
        ELSE
            LET variant == SubSeq(input, 1, 4)
            IN  CASE variant = U32LE(0) ->
                        IF ~Readable(13) THEN DecodeError
                        ELSE [err |-> "Ok",
                              instruction |->
                                CreateLookupTable(SubSeq(input, 5, 12), input[13])]
                  [] variant = U32LE(1) -> [err |-> "Ok", instruction |-> FreezeLookupTable]
                  [] variant = U32LE(2) ->
                        IF ~Readable(12) THEN DecodeError
                        ELSE
                            LET vector_len == SubSeq(input, 5, 12)
                            IN  \* each key takes 32 bytes of the limit
                                IF U64Lt(U64(limit), vector_len) THEN DecodeError
                                ELSE IF ~Readable(12 + U64ToNat(vector_len) * PUBKEY_BYTES)
                                THEN DecodeError
                                ELSE [err |-> "Ok",
                                      instruction |->
                                        ExtendLookupTable(
                                            CastPubkeys(
                                                SubSeq(input, 13,
                                                       12 + U64ToNat(vector_len) * PUBKEY_BYTES)
                                            ).addresses)]
                  [] variant = U32LE(3) -> [err |-> "Ok", instruction |-> DeactivateLookupTable]
                  [] variant = U32LE(4) -> [err |-> "Ok", instruction |-> CloseLookupTable]
                  [] OTHER -> DecodeError

\* safe_deserialize_instruction with >= for > in line 111: a vector of
\* MAX_NEW_KEYS_VECTOR_LEN keys is refused.
safe_deserialize_instruction_PeekInclusive(input) ==
    LET stub == DeserializeInstructionStub(input)
    IN  IF stub.err # "Ok" THEN DecodeError
        ELSE IF stub.variant = 2 /\ U64Le(U64(MAX_NEW_KEYS_VECTOR_LEN), stub.vector_len)
        THEN DecodeError
        ELSE limited_deserialize(input, MAX_INPUT_LEN)

\* safe_deserialize_instruction
safe_deserialize_instruction(input) ==
    LET stub == DeserializeInstructionStub(input)
    IN  IF stub.err # "Ok" THEN DecodeError
        ELSE IF stub.variant = 2 /\ U64Lt(U64(MAX_NEW_KEYS_VECTOR_LEN), stub.vector_len)
        THEN DecodeError
        ELSE limited_deserialize(input, MAX_INPUT_LEN)


(***************************************************************************)
(* Instruction handlers (program/src/processor.rs).                        *)
(***************************************************************************)

\* process_create_lookup_table without the return for an account the program
\* already owns (lines 176-178).
process_create_lookup_table_NoShortcut(tbl, pay, rcp, hashes, ix) ==
    IF ix.n_accounts < 3 THEN Result("NotEnoughAccountKeys", tbl, pay, rcp)
    ELSE IF ~ix.payer_signer THEN Result("MissingRequiredSignature", tbl, pay, rcp)
    ELSE IF ~IsSome(SlotHashesGet(hashes, ix.recent_slot))
    THEN Result("InvalidInstructionData", tbl, pay, rcp)
    ELSE
        LET derived == create_program_address(ix.authority, ix.recent_slot, ix.bump_seed)
        IN  IF derived.err # "Ok" THEN Result(derived.err, tbl, pay, rcp)
            ELSE IF TableKey # derived.key THEN Result("InvalidArgument", tbl, pay, rcp)
            ELSE
                LET required_lamports == RequiredLamports(LOOKUP_TABLE_META_SIZE, tbl.lamports)
                    transfer ==
                        IF required_lamports # U64_ZERO
                        THEN SystemTransfer(pay, tbl.lamports, required_lamports)
                        ELSE [err |-> "Ok", from |-> pay, to |-> tbl.lamports]
                    funded == [tbl EXCEPT !.lamports = transfer.to]
                IN  IF transfer.err # "Ok" THEN Result(transfer.err, tbl, pay, rcp)
                    ELSE IF ix.n_accounts < 4
                    THEN Result("NotEnoughAccountKeys", funded, transfer.from, rcp)
                    ELSE
                        LET allocated == SystemAllocate(funded, LOOKUP_TABLE_META_SIZE)
                            assigned == SystemAssign(allocated.table, ProgramId)
                            written == serialize_new_lookup_table(assigned.data, ix.authority)
                        IN  IF allocated.err # "Ok"
                            THEN Result(allocated.err, funded, transfer.from, rcp)
                            ELSE Result(written.err,
                                        [assigned EXCEPT !.data = written.data],
                                        transfer.from, rcp)

\* process_create_lookup_table with the owner shortcut of lines 176-178 taken
\* first, before the payer, recent slot and derived address are checked.
process_create_lookup_table_ShortcutFirst(tbl, pay, rcp, hashes, ix) ==
    IF ix.n_accounts < 3 THEN Result("NotEnoughAccountKeys", tbl, pay, rcp)
    ELSE IF tbl.owner = ProgramId THEN Result("Ok", tbl, pay, rcp)
    ELSE IF ~ix.payer_signer THEN Result("MissingRequiredSignature", tbl, pay, rcp)
    ELSE IF ~IsSome(SlotHashesGet(hashes, ix.recent_slot))
    THEN Result("InvalidInstructionData", tbl, pay, rcp)
    ELSE
        LET derived == create_program_address(ix.authority, ix.recent_slot, ix.bump_seed)
        IN  IF derived.err # "Ok" THEN Result(derived.err, tbl, pay, rcp)
            ELSE IF TableKey # derived.key THEN Result("InvalidArgument", tbl, pay, rcp)
            ELSE
                LET required_lamports == RequiredLamports(LOOKUP_TABLE_META_SIZE, tbl.lamports)
                    transfer ==
                        IF required_lamports # U64_ZERO
                        THEN SystemTransfer(pay, tbl.lamports, required_lamports)
                        ELSE [err |-> "Ok", from |-> pay, to |-> tbl.lamports]
                    funded == [tbl EXCEPT !.lamports = transfer.to]
                IN  IF transfer.err # "Ok" THEN Result(transfer.err, tbl, pay, rcp)
                    ELSE IF ix.n_accounts < 4
                    THEN Result("NotEnoughAccountKeys", funded, transfer.from, rcp)
                    ELSE
                        LET allocated == SystemAllocate(funded, LOOKUP_TABLE_META_SIZE)
                            assigned == SystemAssign(allocated.table, ProgramId)
                            written == serialize_new_lookup_table(assigned.data, ix.authority)
                        IN  IF allocated.err # "Ok"
                            THEN Result(allocated.err, funded, transfer.from, rcp)
                            ELSE Result(written.err,
                                        [assigned EXCEPT !.data = written.data],
                                        transfer.from, rcp)

\* process_create_lookup_table
process_create_lookup_table(tbl, pay, rcp, hashes, ix) ==
    IF ix.n_accounts < 3 THEN Result("NotEnoughAccountKeys", tbl, pay, rcp)
    ELSE IF ~ix.payer_signer THEN Result("MissingRequiredSignature", tbl, pay, rcp)
    ELSE IF ~IsSome(SlotHashesGet(hashes, ix.recent_slot))
    THEN Result("InvalidInstructionData", tbl, pay, rcp)
    ELSE
        LET derived == create_program_address(ix.authority, ix.recent_slot, ix.bump_seed)
        IN  IF derived.err # "Ok" THEN Result(derived.err, tbl, pay, rcp)
            ELSE IF TableKey # derived.key THEN Result("InvalidArgument", tbl, pay, rcp)
            ELSE IF tbl.owner = ProgramId THEN Result("Ok", tbl, pay, rcp)
            ELSE
                LET required_lamports == RequiredLamports(LOOKUP_TABLE_META_SIZE, tbl.lamports)
                    transfer ==
                        IF required_lamports # U64_ZERO
                        THEN SystemTransfer(pay, tbl.lamports, required_lamports)
                        ELSE [err |-> "Ok", from |-> pay, to |-> tbl.lamports]
                    funded == [tbl EXCEPT !.lamports = transfer.to]
                IN  IF transfer.err # "Ok" THEN Result(transfer.err, tbl, pay, rcp)
                    ELSE IF ix.n_accounts < 4
                    THEN Result("NotEnoughAccountKeys", funded, transfer.from, rcp)
                    ELSE
                        LET allocated == SystemAllocate(funded, LOOKUP_TABLE_META_SIZE)
                            assigned == SystemAssign(allocated.table, ProgramId)
                            written == serialize_new_lookup_table(assigned.data, ix.authority)
                        IN  IF allocated.err # "Ok"
                            THEN Result(allocated.err, funded, transfer.from, rcp)
                            ELSE Result(written.err,
                                        [assigned EXCEPT !.data = written.data],
                                        transfer.from, rcp)

\* The authority checks without the frozen case: an absent authority is
\* compared like a key.
CheckAuthority_NoImmutable(meta, authority_key) ==
    IF meta.authority # Some(authority_key) THEN "IncorrectAuthority"
    ELSE "Ok"

\* The authority checks without the comparison of the keys.
CheckAuthority_AnyKey(meta, authority_key) ==
    IF meta.authority = None THEN "Immutable"
    ELSE "Ok"

\* The authority checks every handler but create makes on the deserialized
\* table: Immutable for a frozen table, IncorrectAuthority for another key.
CheckAuthority(meta, authority_key) ==
    IF meta.authority = None THEN "Immutable"
    ELSE IF meta.authority # Some(authority_key) THEN "IncorrectAuthority"
    ELSE "Ok"

\* process_freeze_lookup_table writing a fresh meta without authority in
\* place of the table's meta with the authority removed.
process_freeze_lookup_table_FreshMeta(tbl, pay, rcp, ix) ==
    IF ix.n_accounts < 1 THEN Result("NotEnoughAccountKeys", tbl, pay, rcp)
    ELSE IF tbl.owner # ProgramId THEN Result("InvalidAccountOwner", tbl, pay, rcp)
    ELSE IF ix.n_accounts < 2 THEN Result("NotEnoughAccountKeys", tbl, pay, rcp)
    ELSE IF ~ix.authority_signer THEN Result("MissingRequiredSignature", tbl, pay, rcp)
    ELSE
        LET lookup_table == deserialize(tbl.data)
        IN  IF lookup_table.err # "Ok" THEN Result(lookup_table.err, tbl, pay, rcp)
            ELSE IF CheckAuthority(lookup_table.meta, ix.authority) # "Ok"
            THEN Result(CheckAuthority(lookup_table.meta, ix.authority), tbl, pay, rcp)
            ELSE IF lookup_table.meta.deactivation_slot # U64_MAX
            THEN Result("InvalidArgument", tbl, pay, rcp)
            ELSE IF lookup_table.addresses = <<>>
            THEN Result("InvalidInstructionData", tbl, pay, rcp)
            ELSE
                LET written == overwrite_meta_data(tbl.data, LookupTableMetaDefault)
                IN  Result(written.err, [tbl EXCEPT !.data = written.data], pay, rcp)

\* process_freeze_lookup_table without the check for an empty table (lines
\* 249-252).
process_freeze_lookup_table_NoEmptyCheck(tbl, pay, rcp, ix) ==
    IF ix.n_accounts < 1 THEN Result("NotEnoughAccountKeys", tbl, pay, rcp)
    ELSE IF tbl.owner # ProgramId THEN Result("InvalidAccountOwner", tbl, pay, rcp)
    ELSE IF ix.n_accounts < 2 THEN Result("NotEnoughAccountKeys", tbl, pay, rcp)
    ELSE IF ~ix.authority_signer THEN Result("MissingRequiredSignature", tbl, pay, rcp)
    ELSE
        LET lookup_table == deserialize(tbl.data)
        IN  IF lookup_table.err # "Ok" THEN Result(lookup_table.err, tbl, pay, rcp)
            ELSE IF CheckAuthority(lookup_table.meta, ix.authority) # "Ok"
            THEN Result(CheckAuthority(lookup_table.meta, ix.authority), tbl, pay, rcp)
            ELSE IF lookup_table.meta.deactivation_slot # U64_MAX
            THEN Result("InvalidArgument", tbl, pay, rcp)
            ELSE
                LET lookup_table_meta == [lookup_table.meta EXCEPT !.authority = None]
                    written == overwrite_meta_data(tbl.data, lookup_table_meta)
                IN  Result(written.err, [tbl EXCEPT !.data = written.data], pay, rcp)

\* process_freeze_lookup_table without the check of lines 245-248: a
\* deactivated table is frozen like an active one.
process_freeze_lookup_table_Deactivated(tbl, pay, rcp, ix) ==
    IF ix.n_accounts < 1 THEN Result("NotEnoughAccountKeys", tbl, pay, rcp)
    ELSE IF tbl.owner # ProgramId THEN Result("InvalidAccountOwner", tbl, pay, rcp)
    ELSE IF ix.n_accounts < 2 THEN Result("NotEnoughAccountKeys", tbl, pay, rcp)
    ELSE IF ~ix.authority_signer THEN Result("MissingRequiredSignature", tbl, pay, rcp)
    ELSE
        LET lookup_table == deserialize(tbl.data)
        IN  IF lookup_table.err # "Ok" THEN Result(lookup_table.err, tbl, pay, rcp)
            ELSE IF CheckAuthority(lookup_table.meta, ix.authority) # "Ok"
            THEN Result(CheckAuthority(lookup_table.meta, ix.authority), tbl, pay, rcp)
            ELSE IF lookup_table.addresses = <<>>
            THEN Result("InvalidInstructionData", tbl, pay, rcp)
            ELSE
                LET lookup_table_meta == [lookup_table.meta EXCEPT !.authority = None]
                    written == overwrite_meta_data(tbl.data, lookup_table_meta)
                IN  Result(written.err, [tbl EXCEPT !.data = written.data], pay, rcp)

\* process_freeze_lookup_table
process_freeze_lookup_table(tbl, pay, rcp, ix) ==
    IF ix.n_accounts < 1 THEN Result("NotEnoughAccountKeys", tbl, pay, rcp)
    ELSE IF tbl.owner # ProgramId THEN Result("InvalidAccountOwner", tbl, pay, rcp)
    ELSE IF ix.n_accounts < 2 THEN Result("NotEnoughAccountKeys", tbl, pay, rcp)
    ELSE IF ~ix.authority_signer THEN Result("MissingRequiredSignature", tbl, pay, rcp)
    ELSE
        LET lookup_table == deserialize(tbl.data)
        IN  IF lookup_table.err # "Ok" THEN Result(lookup_table.err, tbl, pay, rcp)
            ELSE IF CheckAuthority(lookup_table.meta, ix.authority) # "Ok"
            THEN Result(CheckAuthority(lookup_table.meta, ix.authority), tbl, pay, rcp)
            ELSE IF lookup_table.meta.deactivation_slot # U64_MAX
            THEN Result("InvalidArgument", tbl, pay, rcp)
            ELSE IF lookup_table.addresses = <<>>
            THEN Result("InvalidInstructionData", tbl, pay, rcp)
            ELSE
                LET lookup_table_meta == [lookup_table.meta EXCEPT !.authority = None]
                    written == overwrite_meta_data(tbl.data, lookup_table_meta)
                IN  Result(written.err, [tbl EXCEPT !.data = written.data], pay, rcp)

\* The capacity checks without the check of the sum.
ExtendCapacityCheck_NoSum(old_len, new_len) ==
    IF old_len >= LOOKUP_TABLE_MAX_ADDRESSES THEN "InvalidArgument"
    ELSE IF new_len = 0 THEN "InvalidInstructionData"
    ELSE "Ok"

\* The capacity checks with the sum refused from LOOKUP_TABLE_MAX_ADDRESSES
\* on (>= for > in line 319).
ExtendCapacityCheck_SumInclusive(old_len, new_len) ==
    IF old_len >= LOOKUP_TABLE_MAX_ADDRESSES THEN "InvalidArgument"
    ELSE IF new_len = 0 THEN "InvalidInstructionData"
    ELSE IF old_len + new_len >= LOOKUP_TABLE_MAX_ADDRESSES THEN "InvalidInstructionData"
    ELSE "Ok"

\* The capacity checks with the check for new addresses before the check for
\* a full table (lines 308-316 before lines 302-305).
ExtendCapacityCheck_EmptyFirst(old_len, new_len) ==
    IF new_len = 0 THEN "InvalidInstructionData"
    ELSE IF old_len >= LOOKUP_TABLE_MAX_ADDRESSES THEN "InvalidArgument"
    ELSE IF old_len + new_len > LOOKUP_TABLE_MAX_ADDRESSES THEN "InvalidInstructionData"
    ELSE "Ok"

\* The capacity checks reduced to the check of the sum: a full table and an
\* extend without addresses pass.
ExtendCapacityCheck_SumOnly(old_len, new_len) ==
    IF old_len + new_len > LOOKUP_TABLE_MAX_ADDRESSES THEN "InvalidInstructionData"
    ELSE "Ok"

\* process_extend_lookup_table, the capacity checks: the table is not full, the
\* new addresses are not empty and fit.
ExtendCapacityCheck(old_len, new_len) ==
    IF old_len >= LOOKUP_TABLE_MAX_ADDRESSES THEN "InvalidArgument"
    ELSE IF new_len = 0 THEN "InvalidInstructionData"
    ELSE IF old_len + new_len > LOOKUP_TABLE_MAX_ADDRESSES THEN "InvalidInstructionData"
    ELSE "Ok"

\* The meta update without the comparison of the slots: every extend records
\* the index its addresses start at.
ExtendMeta_EveryExtend(meta, clock_slot, old_table_addresses_len) ==
    [meta EXCEPT !.last_extended_slot = clock_slot,
                 !.last_extended_slot_start_index = old_table_addresses_len]

\* The meta update that records the slot and leaves the start index alone.
ExtendMeta_SlotOnly(meta, clock_slot, old_table_addresses_len) ==
    [meta EXCEPT !.last_extended_slot = clock_slot]

\* The meta update recording an index two past the number of addresses the
\* table held before the extend.
ExtendMeta_PastEnd(meta, clock_slot, old_table_addresses_len) ==
    IF clock_slot # meta.last_extended_slot
    THEN [meta EXCEPT !.last_extended_slot = clock_slot,
                      !.last_extended_slot_start_index = old_table_addresses_len + 2]
    ELSE meta

\* process_extend_lookup_table, the meta update: a first extend in a slot
\* records the slot and the index its addresses start at.
ExtendMeta(meta, clock_slot, old_table_addresses_len) ==
    IF clock_slot # meta.last_extended_slot
    THEN [meta EXCEPT !.last_extended_slot = clock_slot,
                      !.last_extended_slot_start_index = old_table_addresses_len]
    ELSE meta

\* The copy with the new addresses written last to first.
ExtendCopy_Reversed(data, new_addresses_start_index, new_addresses) ==
    LET uninitialized_addresses ==
            deserialize_addresses_from_index_mut(data, new_addresses_start_index)
        n == Len(new_addresses)
    IN  IF uninitialized_addresses.err # "Ok"
        THEN [err |-> uninitialized_addresses.err, data |-> data]
        ELSE IF uninitialized_addresses.len # n
        THEN [err |-> "panic", data |-> data]
        ELSE [err |-> "Ok",
              data |-> SubSeq(data, 1, uninitialized_addresses.offset)
                        \o Flatten([i \in 1..n |-> new_addresses[n + 1 - i]])]

\* process_extend_lookup_table, the copy of the new addresses into the slice
\* that deserialize_addresses_from_index_mut returns; copy_from_slice panics
\* when the lengths differ.
ExtendCopy(data, new_addresses_start_index, new_addresses) ==
    LET uninitialized_addresses ==
            deserialize_addresses_from_index_mut(data, new_addresses_start_index)
    IN  IF uninitialized_addresses.err # "Ok"
        THEN [err |-> uninitialized_addresses.err, data |-> data]
        ELSE IF uninitialized_addresses.len # Len(new_addresses)
        THEN [err |-> "panic", data |-> data]
        ELSE [err |-> "Ok",
              data |-> SubSeq(data, 1, uninitialized_addresses.offset) \o Flatten(new_addresses)]

\* The rent top-up computed for the length the data had before the realloc
\* of line 386 rather than for new_table_data_len.
ExtendTopUp_StaleLength(tbl, pay, rcp, ix) ==
    LET old_data_len == Len(tbl.data) - Len(ix.new_addresses) * PUBKEY_BYTES
        required_lamports == RequiredLamports(old_data_len, tbl.lamports)
    IN  IF required_lamports = U64_ZERO THEN Result("Ok", tbl, pay, rcp)
        ELSE IF ix.n_accounts < 3 THEN Result("NotEnoughAccountKeys", tbl, pay, rcp)
        ELSE IF ~ix.payer_signer THEN Result("MissingRequiredSignature", tbl, pay, rcp)
        ELSE IF ix.n_accounts < 4 THEN Result("NotEnoughAccountKeys", tbl, pay, rcp)
        ELSE
            LET transfer == SystemTransfer(pay, tbl.lamports, required_lamports)
            IN  Result(transfer.err, [tbl EXCEPT !.lamports = transfer.to], transfer.from, rcp)

\* process_extend_lookup_table, the rent top-up after the data has grown.
ExtendTopUp(tbl, pay, rcp, ix) ==
    LET required_lamports == RequiredLamports(Len(tbl.data), tbl.lamports)
    IN  IF required_lamports = U64_ZERO THEN Result("Ok", tbl, pay, rcp)
        ELSE IF ix.n_accounts < 3 THEN Result("NotEnoughAccountKeys", tbl, pay, rcp)
        ELSE IF ~ix.payer_signer THEN Result("MissingRequiredSignature", tbl, pay, rcp)
        ELSE IF ix.n_accounts < 4 THEN Result("NotEnoughAccountKeys", tbl, pay, rcp)
        ELSE
            LET transfer == SystemTransfer(pay, tbl.lamports, required_lamports)
            IN  Result(transfer.err, [tbl EXCEPT !.lamports = transfer.to], transfer.from, rcp)

\* process_extend_lookup_table without the check of lines 377-379 before the
\* writes: a read-only table is refused only once the rent top-up is through.
process_extend_lookup_table_LateReadonly(tbl, pay, rcp, clock_slot, ix) ==
    IF ix.n_accounts < 1 THEN Result("NotEnoughAccountKeys", tbl, pay, rcp)
    ELSE IF tbl.owner # ProgramId THEN Result("InvalidAccountOwner", tbl, pay, rcp)
    ELSE IF ix.n_accounts < 2 THEN Result("NotEnoughAccountKeys", tbl, pay, rcp)
    ELSE IF ~ix.authority_signer THEN Result("MissingRequiredSignature", tbl, pay, rcp)
    ELSE
        LET lookup_table == deserialize(tbl.data)
        IN  IF lookup_table.err # "Ok" THEN Result(lookup_table.err, tbl, pay, rcp)
            ELSE IF CheckAuthority(lookup_table.meta, ix.authority) # "Ok"
            THEN Result(CheckAuthority(lookup_table.meta, ix.authority), tbl, pay, rcp)
            ELSE IF lookup_table.meta.deactivation_slot # U64_MAX
            THEN Result("InvalidArgument", tbl, pay, rcp)
            ELSE
                LET old_len == Len(lookup_table.addresses)
                    capacity == ExtendCapacityCheck(old_len, Len(ix.new_addresses))
                IN  IF capacity # "Ok" THEN Result(capacity, tbl, pay, rcp)
                    ELSE IF old_len > 255 THEN Result("InvalidAccountData", tbl, pay, rcp)
                    ELSE
                        LET lookup_table_meta == ExtendMeta(lookup_table.meta, clock_slot, old_len)
                            new_table_data_len ==
                                LOOKUP_TABLE_META_SIZE
                                    + (old_len + Len(ix.new_addresses)) * PUBKEY_BYTES
                            written == overwrite_meta_data(tbl.data, lookup_table_meta)
                            grown == Realloc(written.data, new_table_data_len)
                            copied == ExtendCopy(grown, old_len, ix.new_addresses)
                            topped == ExtendTopUp([tbl EXCEPT !.data = copied.data], pay, rcp, ix)
                        IN  IF written.err # "Ok"
                            THEN Result(written.err, [tbl EXCEPT !.data = written.data], pay, rcp)
                            ELSE IF copied.err # "Ok"
                            THEN Result(copied.err, [tbl EXCEPT !.data = grown], pay, rcp)
                            ELSE IF topped.err # "Ok" THEN topped
                            ELSE IF ~ix.table_writable
                            THEN Result("Custom(10)", topped.table, topped.payer, rcp)
                            ELSE topped

\* process_extend_lookup_table without the check of lines 299-302: a
\* deactivated table is extended like an active one.
process_extend_lookup_table_Deactivated(tbl, pay, rcp, clock_slot, ix) ==
    IF ix.n_accounts < 1 THEN Result("NotEnoughAccountKeys", tbl, pay, rcp)
    ELSE IF tbl.owner # ProgramId THEN Result("InvalidAccountOwner", tbl, pay, rcp)
    ELSE IF ix.n_accounts < 2 THEN Result("NotEnoughAccountKeys", tbl, pay, rcp)
    ELSE IF ~ix.authority_signer THEN Result("MissingRequiredSignature", tbl, pay, rcp)
    ELSE
        LET lookup_table == deserialize(tbl.data)
        IN  IF lookup_table.err # "Ok" THEN Result(lookup_table.err, tbl, pay, rcp)
            ELSE IF CheckAuthority(lookup_table.meta, ix.authority) # "Ok"
            THEN Result(CheckAuthority(lookup_table.meta, ix.authority), tbl, pay, rcp)
            ELSE
                LET old_len == Len(lookup_table.addresses)
                    capacity == ExtendCapacityCheck(old_len, Len(ix.new_addresses))
                IN  IF capacity # "Ok" THEN Result(capacity, tbl, pay, rcp)
                    ELSE IF old_len > 255 THEN Result("InvalidAccountData", tbl, pay, rcp)
                    ELSE
                        LET lookup_table_meta == ExtendMeta(lookup_table.meta, clock_slot, old_len)
                            new_table_data_len ==
                                LOOKUP_TABLE_META_SIZE
                                    + (old_len + Len(ix.new_addresses)) * PUBKEY_BYTES
                            written == overwrite_meta_data(tbl.data, lookup_table_meta)
                            grown == Realloc(written.data, new_table_data_len)
                            copied == ExtendCopy(grown, old_len, ix.new_addresses)
                        IN  IF ~ix.table_writable THEN Result("Custom(10)", tbl, pay, rcp)
                            ELSE IF written.err # "Ok"
                            THEN Result(written.err, [tbl EXCEPT !.data = written.data], pay, rcp)
                            ELSE IF copied.err # "Ok"
                            THEN Result(copied.err, [tbl EXCEPT !.data = grown], pay, rcp)
                            ELSE ExtendTopUp([tbl EXCEPT !.data = copied.data], pay, rcp, ix)

\* process_extend_lookup_table
process_extend_lookup_table(tbl, pay, rcp, clock_slot, ix) ==
    IF ix.n_accounts < 1 THEN Result("NotEnoughAccountKeys", tbl, pay, rcp)
    ELSE IF tbl.owner # ProgramId THEN Result("InvalidAccountOwner", tbl, pay, rcp)
    ELSE IF ix.n_accounts < 2 THEN Result("NotEnoughAccountKeys", tbl, pay, rcp)
    ELSE IF ~ix.authority_signer THEN Result("MissingRequiredSignature", tbl, pay, rcp)
    ELSE
        LET lookup_table == deserialize(tbl.data)
        IN  IF lookup_table.err # "Ok" THEN Result(lookup_table.err, tbl, pay, rcp)
            ELSE IF CheckAuthority(lookup_table.meta, ix.authority) # "Ok"
            THEN Result(CheckAuthority(lookup_table.meta, ix.authority), tbl, pay, rcp)
            ELSE IF lookup_table.meta.deactivation_slot # U64_MAX
            THEN Result("InvalidArgument", tbl, pay, rcp)
            ELSE
                LET old_len == Len(lookup_table.addresses)
                    capacity == ExtendCapacityCheck(old_len, Len(ix.new_addresses))
                IN  IF capacity # "Ok" THEN Result(capacity, tbl, pay, rcp)
                    ELSE IF old_len > 255 THEN Result("InvalidAccountData", tbl, pay, rcp)
                    ELSE
                        LET lookup_table_meta == ExtendMeta(lookup_table.meta, clock_slot, old_len)
                            new_table_data_len ==
                                LOOKUP_TABLE_META_SIZE
                                    + (old_len + Len(ix.new_addresses)) * PUBKEY_BYTES
                            written == overwrite_meta_data(tbl.data, lookup_table_meta)
                            grown == Realloc(written.data, new_table_data_len)
                            copied == ExtendCopy(grown, old_len, ix.new_addresses)
                        IN  IF ~ix.table_writable THEN Result("Custom(10)", tbl, pay, rcp)
                            ELSE IF written.err # "Ok"
                            THEN Result(written.err, [tbl EXCEPT !.data = written.data], pay, rcp)
                            ELSE IF copied.err # "Ok"
                            THEN Result(copied.err, [tbl EXCEPT !.data = grown], pay, rcp)
                            ELSE ExtendTopUp([tbl EXCEPT !.data = copied.data], pay, rcp, ix)

\* process_deactivate_lookup_table without the check for a table already
\* deactivated (lines 451-454).
process_deactivate_lookup_table_Again(tbl, pay, rcp, clock_slot, ix) ==
    IF ix.n_accounts < 1 THEN Result("NotEnoughAccountKeys", tbl, pay, rcp)
    ELSE IF tbl.owner # ProgramId THEN Result("InvalidAccountOwner", tbl, pay, rcp)
    ELSE IF ix.n_accounts < 2 THEN Result("NotEnoughAccountKeys", tbl, pay, rcp)
    ELSE IF ~ix.authority_signer THEN Result("MissingRequiredSignature", tbl, pay, rcp)
    ELSE
        LET lookup_table == deserialize(tbl.data)
        IN  IF lookup_table.err # "Ok" THEN Result(lookup_table.err, tbl, pay, rcp)
            ELSE IF CheckAuthority(lookup_table.meta, ix.authority) # "Ok"
            THEN Result(CheckAuthority(lookup_table.meta, ix.authority), tbl, pay, rcp)
            ELSE
                LET lookup_table_meta ==
                        [lookup_table.meta EXCEPT !.deactivation_slot = clock_slot]
                    written == overwrite_meta_data(tbl.data, lookup_table_meta)
                IN  Result(written.err, [tbl EXCEPT !.data = written.data], pay, rcp)

\* process_deactivate_lookup_table removing the authority with the
\* deactivation, as a freeze does.
process_deactivate_lookup_table_DropAuthority(tbl, pay, rcp, clock_slot, ix) ==
    IF ix.n_accounts < 1 THEN Result("NotEnoughAccountKeys", tbl, pay, rcp)
    ELSE IF tbl.owner # ProgramId THEN Result("InvalidAccountOwner", tbl, pay, rcp)
    ELSE IF ix.n_accounts < 2 THEN Result("NotEnoughAccountKeys", tbl, pay, rcp)
    ELSE IF ~ix.authority_signer THEN Result("MissingRequiredSignature", tbl, pay, rcp)
    ELSE
        LET lookup_table == deserialize(tbl.data)
        IN  IF lookup_table.err # "Ok" THEN Result(lookup_table.err, tbl, pay, rcp)
            ELSE IF CheckAuthority(lookup_table.meta, ix.authority) # "Ok"
            THEN Result(CheckAuthority(lookup_table.meta, ix.authority), tbl, pay, rcp)
            ELSE IF lookup_table.meta.deactivation_slot # U64_MAX
            THEN Result("InvalidArgument", tbl, pay, rcp)
            ELSE
                LET lookup_table_meta ==
                        [lookup_table.meta EXCEPT !.deactivation_slot = clock_slot,
                                                  !.authority = None]
                    written == overwrite_meta_data(tbl.data, lookup_table_meta)
                IN  Result(written.err, [tbl EXCEPT !.data = written.data], pay, rcp)

\* process_deactivate_lookup_table
process_deactivate_lookup_table(tbl, pay, rcp, clock_slot, ix) ==
    IF ix.n_accounts < 1 THEN Result("NotEnoughAccountKeys", tbl, pay, rcp)
    ELSE IF tbl.owner # ProgramId THEN Result("InvalidAccountOwner", tbl, pay, rcp)
    ELSE IF ix.n_accounts < 2 THEN Result("NotEnoughAccountKeys", tbl, pay, rcp)
    ELSE IF ~ix.authority_signer THEN Result("MissingRequiredSignature", tbl, pay, rcp)
    ELSE
        LET lookup_table == deserialize(tbl.data)
        IN  IF lookup_table.err # "Ok" THEN Result(lookup_table.err, tbl, pay, rcp)
            ELSE IF CheckAuthority(lookup_table.meta, ix.authority) # "Ok"
            THEN Result(CheckAuthority(lookup_table.meta, ix.authority), tbl, pay, rcp)
            ELSE IF lookup_table.meta.deactivation_slot # U64_MAX
            THEN Result("InvalidArgument", tbl, pay, rcp)
            ELSE
                LET lookup_table_meta ==
                        [lookup_table.meta EXCEPT !.deactivation_slot = clock_slot]
                    written == overwrite_meta_data(tbl.data, lookup_table_meta)
                IN  Result(written.err, [tbl EXCEPT !.data = written.data], pay, rcp)

\* The admission without the cool-down: a deactivating table may be closed.
CloseStatusCheck_NoCoolDown(table_status) ==
    IF table_status.kind = "Activated" THEN "InvalidArgument" ELSE "Ok"

\* process_close_lookup_table, the admission by status: only a fully
\* deactivated table may be closed.
CloseStatusCheck(table_status) ==
    IF table_status.kind = "Deactivated" THEN "Ok" ELSE "InvalidArgument"

\* The drain without the final set_lamports(0) of line 550.
CloseDrain_KeepLamports(tbl, pay, rcp, ix) ==
    LET new_recipient_lamports == U64CheckedAdd(tbl.lamports, rcp)
    IN  IF new_recipient_lamports = None THEN Result("ArithmeticOverflow", tbl, pay, rcp)
        ELSE IF ~ix.recipient_writable THEN Result("Custom(11)", tbl, pay, rcp)
        ELSE IF ~ix.table_writable
        THEN Result("Custom(10)", tbl, pay, Unwrap(new_recipient_lamports))
        ELSE Result("Ok", [tbl EXCEPT !.data = Realloc(tbl.data, 0)],
                    pay, Unwrap(new_recipient_lamports))

\* The drain with the check of the recipient's writable flag (lines 538-540)
\* before the checked_add of lines 533-536.
CloseDrain_WritableFirst(tbl, pay, rcp, ix) ==
    LET new_recipient_lamports == U64CheckedAdd(tbl.lamports, rcp)
    IN  IF ~ix.recipient_writable THEN Result("Custom(11)", tbl, pay, rcp)
        ELSE IF new_recipient_lamports = None THEN Result("ArithmeticOverflow", tbl, pay, rcp)
        ELSE IF ~ix.table_writable
        THEN Result("Custom(10)", tbl, pay, Unwrap(new_recipient_lamports))
        ELSE Result("Ok",
                    [tbl EXCEPT !.data = Realloc(tbl.data, 0), !.lamports = U64_ZERO],
                    pay, Unwrap(new_recipient_lamports))

\* process_close_lookup_table, the drain: the recipient receives the table's
\* lamports, the table's data is cut to 0 and its lamports set to 0.  The
\* owner is not reassigned.
CloseDrain(tbl, pay, rcp, ix) ==
    LET new_recipient_lamports == U64CheckedAdd(tbl.lamports, rcp)
    IN  IF new_recipient_lamports = None THEN Result("ArithmeticOverflow", tbl, pay, rcp)
        ELSE IF ~ix.recipient_writable THEN Result("Custom(11)", tbl, pay, rcp)
        ELSE IF ~ix.table_writable
        THEN Result("Custom(10)", tbl, pay, Unwrap(new_recipient_lamports))
        ELSE Result("Ok",
                    [tbl EXCEPT !.data = Realloc(tbl.data, 0), !.lamports = U64_ZERO],
                    pay, Unwrap(new_recipient_lamports))

\* process_close_lookup_table
process_close_lookup_table(tbl, pay, rcp, clock_slot, hashes, ix) ==
    IF ix.n_accounts < 1 THEN Result("NotEnoughAccountKeys", tbl, pay, rcp)
    ELSE IF tbl.owner # ProgramId THEN Result("InvalidAccountOwner", tbl, pay, rcp)
    ELSE IF ix.n_accounts < 2 THEN Result("NotEnoughAccountKeys", tbl, pay, rcp)
    ELSE IF ~ix.authority_signer THEN Result("MissingRequiredSignature", tbl, pay, rcp)
    ELSE IF ix.n_accounts < 3 THEN Result("NotEnoughAccountKeys", tbl, pay, rcp)
    ELSE IF ix.recipient_is_table THEN Result("InvalidArgument", tbl, pay, rcp)
    ELSE
        LET lookup_table == deserialize(tbl.data)
        IN  IF lookup_table.err # "Ok" THEN Result(lookup_table.err, tbl, pay, rcp)
            ELSE IF CheckAuthority(lookup_table.meta, ix.authority) # "Ok"
            THEN Result(CheckAuthority(lookup_table.meta, ix.authority), tbl, pay, rcp)
            ELSE
                LET table_status ==
                        get_lookup_table_status(lookup_table.meta.deactivation_slot,
                                                clock_slot, hashes)
                IN  IF CloseStatusCheck(table_status) # "Ok"
                    THEN Result(CloseStatusCheck(table_status), tbl, pay, rcp)
                    ELSE CloseDrain(tbl, pay, rcp, ix)


(***************************************************************************)
(* The state machine: the runtime executes one instruction at a time on    *)
(* the accounts, keeps the handler's writes when it returns Ok and rolls   *)
(* them back otherwise; between instructions the bank may move to a later  *)
(* slot.                                                                   *)
(***************************************************************************)

\* Bounds of the lifecycle specification Spec.
MaxSlot == 2
MaxSkip == 0
MaxTableLen == 3
PayerAddresses == 2

\* The lamports of a table account funded in part before its creation.
PartLamports == 1000

Key3 == Pubkey(3)
Key4 == Pubkey(4)

NoInstruction == [ix |-> "none", err |-> "Ok"]

NewTable == [owner |-> SystemProgram, lamports |-> U64_ZERO, data |-> <<>>]

\* No function of state.rs is being called.
NoProbe == [fn |-> "none"]

NoHistory ==
    [created |-> FALSE, frozen |-> FALSE, deactivated |-> FALSE, closed |-> FALSE,
     append_slots |-> <<>>]

\* The number of addresses the table account's data has room for.
TableLen(tbl) ==
    IF Len(tbl.data) < LOOKUP_TABLE_META_SIZE THEN 0
    ELSE (Len(tbl.data) - LOOKUP_TABLE_META_SIZE) \div PUBKEY_BYTES

TypeOK ==
    /\ slot \in Nat
    /\ table.owner \in {SystemProgram, ProgramId}
    /\ last.ix \in {"none", "create", "freeze", "extend", "deactivate", "close"}

Init ==
    /\ slot = 0
    /\ slot_hashes = <<>>
    /\ table \in {NewTable,
                 [NewTable EXCEPT !.lamports = U64(PartLamports)],
                 [NewTable EXCEPT !.lamports =
                     minimum_balance(LOOKUP_TABLE_META_SIZE + 2 * PUBKEY_BYTES)]}
    /\ payer = minimum_balance(LOOKUP_TABLE_META_SIZE + PayerAddresses * PUBKEY_BYTES)
    /\ recipient = U64(5)
    /\ last = NoInstruction
    /\ hist = NoHistory
    /\ probe = NoProbe

\* A runtime that keeps the accounts as the handler left them, whatever the
\* handler returns.
Commit_KeepWrites(name, r) ==
    /\ table' = r.table
    /\ payer' = r.payer
    /\ recipient' = r.recipient
    /\ last' = [ix |-> name, err |-> r.err]
    /\ UNCHANGED <<slot, slot_hashes, probe>>

\* The runtime's commit or rollback of an instruction's writes.
Commit(name, r) ==
    /\ table' = IF r.err = "Ok" THEN r.table ELSE table
    /\ payer' = IF r.err = "Ok" THEN r.payer ELSE payer
    /\ recipient' = IF r.err = "Ok" THEN r.recipient ELSE recipient
    /\ last' = [ix |-> name, err |-> r.err]
    /\ UNCHANGED <<slot, slot_hashes, probe>>

Create(ix) ==
    LET r == process_create_lookup_table(table, payer, recipient, slot_hashes, ix)
    IN  /\ Commit("create", r)
        /\ hist' = IF r.err = "Ok" /\ r.table # table
                   THEN [hist EXCEPT !.created = TRUE] ELSE hist

Freeze(ix) ==
    LET r == process_freeze_lookup_table(table, payer, recipient, ix)
    IN  /\ Commit("freeze", r)
        /\ hist' = IF r.err = "Ok" THEN [hist EXCEPT !.frozen = TRUE] ELSE hist

Extend(ix) ==
    LET r == process_extend_lookup_table(table, payer, recipient, U64(slot), ix)
    IN  /\ Commit("extend", r)
        /\ hist' = IF r.err = "Ok"
                   THEN [hist EXCEPT !.append_slots =
                            @ \o [i \in 1..Len(ix.new_addresses) |-> slot]]
                   ELSE hist

Deactivate(ix) ==
    LET r == process_deactivate_lookup_table(table, payer, recipient, U64(slot), ix)
    IN  /\ Commit("deactivate", r)
        /\ hist' = IF r.err = "Ok" THEN [hist EXCEPT !.deactivated = TRUE] ELSE hist

Close(ix) ==
    LET r == process_close_lookup_table(table, payer, recipient, U64(slot), slot_hashes, ix)
    IN  /\ Commit("close", r)
        /\ hist' = IF r.err = "Ok"
                   THEN [hist EXCEPT !.closed = TRUE, !.append_slots = <<>>]
                   ELSE hist

\* The bank of a later slot: the Clock moves on, and the slot left becomes the
\* newest of the (at most MAX_ENTRIES) slot hashes.  `skip` slots in between
\* produce no block and leave no slot hash.
AdvanceSlot(skip) ==
    /\ slot' = slot + 1 + skip
    /\ slot_hashes' = Take(<<slot>> \o slot_hashes, MAX_ENTRIES)
    /\ last' = NoInstruction
    /\ UNCHANGED <<table, payer, recipient, hist, probe>>

\* The runtime drops an account left without lamports once the transaction
\* that closed it is over: the address is again that of an account of the
\* system program, without data.
Purge ==
    /\ table.lamports = U64_ZERO
    /\ table # NewTable
    /\ table' = NewTable
    /\ last' = NoInstruction
    /\ UNCHANGED <<slot, slot_hashes, payer, recipient, hist, probe>>

\* The instructions of the lifecycle specification: the well-formed
\* instruction of the table's authority, and each way of getting one of its
\* inputs wrong.
Authorities == {AuthorityA, AuthorityB}

ValidCreate ==
    [recent_slot |-> TableSeeds.recent_slot, bump_seed |-> TableSeeds.bump_seed,
     authority |-> TableSeeds.authority, payer_signer |-> TRUE, n_accounts |-> 4]

CreateInputs ==
    {ValidCreate,
     [ValidCreate EXCEPT !.recent_slot = U64(1)],
     [ValidCreate EXCEPT !.recent_slot = U64_MAX],
     [ValidCreate EXCEPT !.bump_seed = 254],
     [ValidCreate EXCEPT !.bump_seed = 253],
     [ValidCreate EXCEPT !.authority = AuthorityB],
     [ValidCreate EXCEPT !.payer_signer = FALSE],
     [ValidCreate EXCEPT !.n_accounts = 3],
     [ValidCreate EXCEPT !.n_accounts = 2]}

ValidFreeze == [authority |-> AuthorityA, authority_signer |-> TRUE, n_accounts |-> 2]

FreezeInputs ==
    {ValidFreeze,
     [ValidFreeze EXCEPT !.authority = AuthorityB],
     [ValidFreeze EXCEPT !.authority_signer = FALSE],
     [ValidFreeze EXCEPT !.n_accounts = 1]}

ValidExtend ==
    [authority |-> AuthorityA, authority_signer |-> TRUE, new_addresses |-> <<Key3>>,
     table_writable |-> TRUE, payer_signer |-> TRUE, n_accounts |-> 4]

ExtendInputs ==
    {ValidExtend,
     [ValidExtend EXCEPT !.new_addresses = <<Key4, Key3>>],
     [ValidExtend EXCEPT !.new_addresses = <<>>],
     [ValidExtend EXCEPT !.authority = AuthorityB],
     [ValidExtend EXCEPT !.authority_signer = FALSE],
     [ValidExtend EXCEPT !.table_writable = FALSE],
     [ValidExtend EXCEPT !.payer_signer = FALSE],
     [ValidExtend EXCEPT !.n_accounts = 3],
     [ValidExtend EXCEPT !.n_accounts = 2],
     [ValidExtend EXCEPT !.n_accounts = 1]}

ValidDeactivate == [authority |-> AuthorityA, authority_signer |-> TRUE, n_accounts |-> 2]

DeactivateInputs ==
    {ValidDeactivate,
     [ValidDeactivate EXCEPT !.authority = AuthorityB],
     [ValidDeactivate EXCEPT !.authority_signer = FALSE],
     [ValidDeactivate EXCEPT !.n_accounts = 1]}

ValidClose ==
    [authority |-> AuthorityA, authority_signer |-> TRUE, recipient_is_table |-> FALSE,
     recipient_writable |-> TRUE, table_writable |-> TRUE, n_accounts |-> 3]

CloseInputs ==
    {ValidClose,
     [ValidClose EXCEPT !.authority = AuthorityB],
     [ValidClose EXCEPT !.authority_signer = FALSE],
     [ValidClose EXCEPT !.recipient_is_table = TRUE],
     [ValidClose EXCEPT !.recipient_writable = FALSE],
     [ValidClose EXCEPT !.table_writable = FALSE],
     [ValidClose EXCEPT !.n_accounts = 2]}

Next ==
    \/ \E ix \in CreateInputs : Create(ix)
    \/ \E ix \in FreezeInputs : Freeze(ix)
    \/ \E ix \in ExtendInputs :
        /\ TableLen(table) + Len(ix.new_addresses) <= MaxTableLen
        /\ Extend(ix)
    \/ \E ix \in DeactivateInputs : Deactivate(ix)
    \/ \E ix \in CloseInputs : Close(ix)
    \/ \E skip \in 0..MaxSkip :
        /\ slot + 1 + skip <= MaxSlot
        /\ AdvanceSlot(skip)

Spec == Init /\ [][Next]_vars


(***************************************************************************)
(* The cool-down specification: the same instructions over a clock that    *)
(* runs past the slot-hash window.  The table is created, extended,        *)
(* frozen or deactivated by its authority within the first CoolBusySlot    *)
(* slots; create and close are attempted in every slot, and a closed       *)
(* account is dropped by the runtime.                                      *)
(***************************************************************************)
CoolMaxSlot == 517
CoolBusySlot == 2
CoolMaxTableLen == 1

CoolCloseInputs ==
    {ValidClose,
     [ValidClose EXCEPT !.authority = AuthorityB],
     [ValidClose EXCEPT !.recipient_writable = FALSE],
     [ValidClose EXCEPT !.table_writable = FALSE]}

\* The extends of the cool-down specification: that of the authority, with
\* and without the payer and system program accounts.
CoolExtendInputs == {ValidExtend, [ValidExtend EXCEPT !.n_accounts = 2]}

InitCool ==
    /\ slot = 0
    /\ slot_hashes = <<>>
    /\ table = NewTable
    /\ payer = minimum_balance(4 * (LOOKUP_TABLE_META_SIZE + PayerAddresses * PUBKEY_BYTES))
    /\ recipient = U64(5)
    /\ last = NoInstruction
    /\ hist = NoHistory
    /\ probe = NoProbe

NextCool ==
    \/ Create(ValidCreate)
    \/ /\ slot <= CoolBusySlot
       /\ TableLen(table) < CoolMaxTableLen
       /\ \E ix \in CoolExtendInputs : Extend(ix)
    \/ /\ slot <= CoolBusySlot
       /\ Freeze(ValidFreeze)
    \/ /\ slot <= CoolBusySlot
       /\ Deactivate(ValidDeactivate)
    \/ \E ix \in CoolCloseInputs : Close(ix)
    \/ Purge
    \/ /\ slot < CoolMaxSlot
       /\ AdvanceSlot(0)

SpecCool == InitCool /\ [][NextCool]_vars


(***************************************************************************)
(* The capacity specification: the authority extends the table in chunks   *)
(* until it is full, and goes on trying; the payer can pay the rent of     *)
(* more than a full table.                                                 *)
(***************************************************************************)
CapMaxSlot == 1

\* The numbers of addresses of an extend: 8 * 32 fills the table exactly,
\* and 38 is the most one instruction carries (MAX_NEW_KEYS_VECTOR_LEN);
\* 2 * 32 + 4 * 38 = 216.
CapChunks == {32, MAX_NEW_KEYS_VECTOR_LEN}

\* Near the end the table is also extended by 1 or 2 addresses, from
\* CapSingleFrom addresses on.
CapSingleFrom == 216
CapSingles == {1, 2}

\* The extend of the authority that appends k keys to a table of old
\* addresses; the key of an address tells its index.
CapExtend(old, k) ==
    [ValidExtend EXCEPT !.new_addresses = [i \in 1..k |-> Pubkey((old + i) % 256)]]

InitCap ==
    /\ slot = 0
    /\ slot_hashes = <<>>
    /\ table = NewTable
    /\ payer = minimum_balance(2 * (LOOKUP_TABLE_META_SIZE
                                     + LOOKUP_TABLE_MAX_ADDRESSES * PUBKEY_BYTES))
    /\ recipient = U64(5)
    /\ last = NoInstruction
    /\ hist = NoHistory
    /\ probe = NoProbe

NextCap ==
    \/ Create(ValidCreate)
    \/ \E k \in CapChunks : Extend(CapExtend(TableLen(table), k))
    \/ \E k \in CapSingles :
        /\ TableLen(table) >= CapSingleFrom
        /\ Extend(CapExtend(TableLen(table), k))
    \/ /\ slot < CapMaxSlot
       /\ AdvanceSlot(0)

SpecCap == InitCap /\ [][NextCap]_vars


(***************************************************************************)
(* The status specification: the two status computations, called on a      *)
(* deactivation slot d and a current slot c = d + k.                       *)
(***************************************************************************)
StatusMaxK == 514

\* Deactivation slots: small ones, one past 2^32, the last ones before
\* u64::MAX, and u64::MAX (never deactivated).
DeactivationSlots ==
    {U64(0), U64(1), U64(512), <<5, 0, 0, 0, 1, 0, 0, 0>>,
     U64WrappingSub(U64_MAX, U64(600)), U64WrappingSub(U64_MAX, U64(1)), U64_MAX}

\* The slot hashes at current slot c when every slot has produced a block:
\* the MAX_ENTRIES slots before c, newest first.
SlotHashesAt(c) == [i \in 1..Min(c, MAX_ENTRIES) |-> c - i]

\* The current slots d + k, k <= StatusMaxK, that do not overflow, and
\* slot 0.
CurrentSlots(d) ==
    {U64_ZERO} \cup
    {Unwrap(U64CheckedAdd(d, U64(k))) :
        k \in {n \in 0..StatusMaxK : IsSome(U64CheckedAdd(d, U64(n)))}}

InitStatus ==
    /\ slot = 0
    /\ slot_hashes = <<>>
    /\ table = NewTable
    /\ payer = U64_ZERO
    /\ recipient = U64_ZERO
    /\ last = NoInstruction
    /\ hist = NoHistory
    /\ \E d \in DeactivationSlots : \E c \in CurrentSlots(d) :
        probe = [fn |-> "status", deactivation_slot |-> d, current_slot |-> c]

\* LookupTableMeta::status and is_active on a meta of deactivation slot d at
\* current slot c, and get_lookup_table_status on the same slots with the
\* slot hashes of slot c.
ApplyStatus ==
    /\ probe.fn = "status"
    /\ LET meta == [LookupTableMetaDefault EXCEPT
                        !.deactivation_slot = probe.deactivation_slot]
           c == probe.current_slot
           hashes == IF U64Lt(c, U64(4 * MAX_ENTRIES))
                     THEN SlotHashesAt(U64ToNat(c)) ELSE <<>>
       IN  probe' = [fn |-> "status_done",
                     deactivation_slot |-> probe.deactivation_slot,
                     current_slot |-> c,
                     status |-> status(meta, c),
                     is_active |-> is_active(meta, c),
                     handler_status |->
                        get_lookup_table_status(probe.deactivation_slot, c, hashes)]
    /\ UNCHANGED <<slot, slot_hashes, table, payer, recipient, last, hist>>

NextStatus == ApplyStatus

SpecStatus == InitStatus /\ [][NextStatus]_vars


(***************************************************************************)
(* The decoder specification: safe_deserialize_instruction called on the   *)
(* instruction data of each variant, on ExtendLookupTable data whose       *)
(* length prefix and number of keys vary around MAX_NEW_KEYS_VECTOR_LEN,   *)
(* on data cut short, and on each of them followed by trailing bytes up to *)
(* and past MAX_INPUT_LEN.                                                 *)
(***************************************************************************)
DecodeMaxKeys == 40
DecodeOverflow == 1

\* The numbers of keys that follow the length prefix.
DecodeKeyCounts ==
    {0, 1, 2, MAX_NEW_KEYS_VECTOR_LEN - 1, MAX_NEW_KEYS_VECTOR_LEN,
     MAX_NEW_KEYS_VECTOR_LEN + 1, DecodeMaxKeys}

\* k keys; the key tells its index.
DecodeKeys(k) == [i \in 1..k |-> Pubkey(i)]

\* The length prefixes: the key counts, one past 2^32 (1 when cut to 32
\* bits) and u64::MAX.
DecodeVectorLens ==
    {U64(n) : n \in DecodeKeyCounts} \cup {<<1, 0, 0, 0, 1, 0, 0, 0>>, U64_MAX}

\* The data of an ExtendLookupTable instruction of k keys with the length
\* prefix replaced by vector_len.
ExtendData(vector_len, k) ==
    LET bytes == SerializeInstruction(ExtendLookupTable(DecodeKeys(k)))
    IN  SubSeq(bytes, 1, 4) \o vector_len \o Drop(bytes, 12)

\* Data that ends within the variant index, within the length prefix or
\* before the last field, and data of no variant.
ShortInputs ==
    {<<>>, <<1, 0, 0>>, U32LE(2), U32LE(2) \o <<38, 0, 0, 0>>, U32LE(5), <<0, 0, 0, 1>>,
     U32LE(0) \o U64(7)}

DecodeBases ==
    {SerializeInstruction(i) :
        i \in {CreateLookupTable(U64(7), 255), FreezeLookupTable,
               DeactivateLookupTable, CloseLookupTable}}
    \cup {ExtendData(v, k) : v \in DecodeVectorLens, k \in DecodeKeyCounts}
    \cup ShortInputs

\* bytes followed by zero bytes up to the length n.
PadTo(bytes, n) == IF Len(bytes) >= n THEN bytes ELSE bytes \o Zeros(n - Len(bytes))

\* The data as it is, followed by one byte, filled up to MAX_INPUT_LEN, and
\* filled up past it.
DecodeInputs ==
    UNION {{b, b \o <<0>>, PadTo(b, MAX_INPUT_LEN), PadTo(b, MAX_INPUT_LEN + DecodeOverflow)} :
            b \in DecodeBases}

InitDecode ==
    /\ slot = 0
    /\ slot_hashes = <<>>
    /\ table = NewTable
    /\ payer = U64_ZERO
    /\ recipient = U64_ZERO
    /\ last = NoInstruction
    /\ hist = NoHistory
    /\ \E input \in DecodeInputs : probe = [fn |-> "decode", input |-> input]

\* process, line 558: the instruction data is decoded; beside it, the same
\* data through limited_deserialize alone.
ApplyDecode ==
    /\ probe.fn = "decode"
    /\ probe' = [fn |-> "decode_done",
                 input |-> probe.input,
                 result |-> safe_deserialize_instruction(probe.input),
                 limited |-> limited_deserialize(probe.input, MAX_INPUT_LEN)]
    /\ UNCHANGED <<slot, slot_hashes, table, payer, recipient, last, hist>>

NextDecode == ApplyDecode

SpecDecode == InitDecode /\ [][NextDecode]_vars


(***************************************************************************)
(* The codec specification: the functions of state.rs called on their own. *)
(* serialize_for_tests and deserialize on tables of every kind of meta and *)
(* of few or (nearly) LOOKUP_TABLE_MAX_ADDRESSES addresses;                *)
(* overwrite_meta_data on serialized tables and on raw buffers; lookup on  *)
(* tables as the handlers leave them, at slots around the deactivation     *)
(* and the last extension.                                                 *)
(***************************************************************************)
CodecSmallLen == 2
LookupMaxLen == 3

\* n addresses; the key tells its index.
CodecAddresses(n) == [i \in 1..n |-> Pubkey(i % 256)]

\* Metas of every kind: deactivated or not, extended or not, with and
\* without authority, the padding zero or not.
CodecMetas ==
    [deactivation_slot : {U64_ZERO, U64(1), <<5, 0, 0, 0, 1, 0, 0, 0>>, U64_MAX},
     last_extended_slot : {U64_ZERO, U64WrappingSub(U64_MAX, U64(1))},
     last_extended_slot_start_index : {0, 255},
     authority : {None, Some(AuthorityA), Some(Pubkey(0))},
     padding : {0, 513}]

\* The buffers overwrite_meta_data is called on: serialized tables, with and
\* without authority, and raw buffers around LOOKUP_TABLE_META_SIZE bytes.
OverwriteBuffers ==
    {serialize_for_tests([meta |-> m, addresses |-> CodecAddresses(n)]).data :
        m \in {LookupTableMetaNew(AuthorityA), LookupTableMetaNew(Pubkey(255)),
               LookupTableMetaDefault,
               [LookupTableMetaNew(AuthorityB) EXCEPT !.deactivation_slot = U64(1),
                                                      !.padding = 513]},
        n \in 0..CodecSmallLen}
    \cup {[i \in 1..n |-> 7] :
            n \in {0, LOOKUP_TABLE_META_SIZE - 1, LOOKUP_TABLE_META_SIZE,
                   LOOKUP_TABLE_META_SIZE + 1, LOOKUP_TABLE_META_SIZE + PUBKEY_BYTES}}

\* Tables as the handlers leave them: n addresses, the last extension at slot
\* e from index s < n on (none for an empty table), deactivated at a slot
\* d >= e or not at all; a deactivated table is looked up at slots >= d.
LookupTables ==
    {[meta |-> [LookupTableMetaNew(AuthorityA) EXCEPT
                    !.deactivation_slot = d,
                    !.last_extended_slot = U64(e),
                    !.last_extended_slot_start_index = s],
      addresses |-> CodecAddresses(n)] :
        n \in 1..LookupMaxLen, s \in 0..(LookupMaxLen - 1), e \in {0, 3},
        d \in {U64_MAX, U64(3), U64(4)}}
    \cup {[meta |-> [LookupTableMetaNew(AuthorityA) EXCEPT !.deactivation_slot = d],
           addresses |-> <<>>] : d \in {U64_MAX, U64(3)}}

\* The slots a table is looked up at: those of its last extension and of its
\* deactivation, the next ones, and those around the end of the cool-down.
LookupSlots(lookup_table) ==
    LET e == lookup_table.meta.last_extended_slot
        d == lookup_table.meta.deactivation_slot
    IN  {e, U64WrappingAdd(e, U64(1))}
        \cup (IF d = U64_MAX THEN {}
              ELSE {U64WrappingAdd(d, U64(k)) :
                        k \in {0, 1, MAX_ENTRIES - 1, MAX_ENTRIES, MAX_ENTRIES + 1}})

\* The indexes looked up.
LookupIndexes == {<<>>, <<0>>, <<1, 0>>, <<0, 2, 1>>, <<2, 2>>, <<3>>, <<0, 255>>}

InitCodec ==
    /\ slot = 0
    /\ slot_hashes = <<>>
    /\ table = NewTable
    /\ payer = U64_ZERO
    /\ recipient = U64_ZERO
    /\ last = NoInstruction
    /\ hist = NoHistory
    /\ \/ \E m \in CodecMetas :
            \E n \in (0..CodecSmallLen)
                        \cup {LOOKUP_TABLE_MAX_ADDRESSES - 1, LOOKUP_TABLE_MAX_ADDRESSES} :
                probe = [fn |-> "round_trip",
                         lookup_table |-> [meta |-> m, addresses |-> CodecAddresses(n)]]
       \/ \E data \in OverwriteBuffers : \E m \in CodecMetas :
                probe = [fn |-> "overwrite", data |-> data, meta |-> m]
       \/ \E t \in LookupTables : \E c \in LookupSlots(t) : \E indexes \in LookupIndexes :
                /\ t.meta.last_extended_slot_start_index < Len(t.addresses)
                /\ U64Le(t.meta.last_extended_slot, t.meta.deactivation_slot)
                /\ t.meta.deactivation_slot # U64_MAX => U64Le(t.meta.deactivation_slot, c)
                /\ probe = [fn |-> "lookup", lookup_table |-> t, current_slot |-> c,
                            indexes |-> indexes]

\* serialize_for_tests, and deserialize on the bytes it returns.
ApplyRoundTrip ==
    /\ probe.fn = "round_trip"
    /\ LET serialized == serialize_for_tests(probe.lookup_table)
       IN  probe' = [fn |-> "round_trip_done",
                     lookup_table |-> probe.lookup_table,
                     serialized |-> serialized,
                     deserialized |-> deserialize(serialized.data)]
    /\ UNCHANGED <<slot, slot_hashes, table, payer, recipient, last, hist>>

\* overwrite_meta_data
ApplyOverwrite ==
    /\ probe.fn = "overwrite"
    /\ probe' = [fn |-> "overwrite_done", data |-> probe.data, meta |-> probe.meta,
                 result |-> overwrite_meta_data(probe.data, probe.meta)]
    /\ UNCHANGED <<slot, slot_hashes, table, payer, recipient, last, hist>>

\* lookup, and the status of the table at the slot of the lookup.
ApplyLookup ==
    /\ probe.fn = "lookup"
    /\ probe' = [fn |-> "lookup_done", lookup_table |-> probe.lookup_table,
                 current_slot |-> probe.current_slot, indexes |-> probe.indexes,
                 status |-> status(probe.lookup_table.meta, probe.current_slot),
                 result |-> lookup(probe.lookup_table, probe.current_slot, probe.indexes)]
    /\ UNCHANGED <<slot, slot_hashes, table, payer, recipient, last, hist>>

NextCodec ==
    \/ ApplyRoundTrip
    \/ ApplyOverwrite
    \/ ApplyLookup

SpecCodec == InitCodec /\ [][NextCodec]_vars


(***************************************************************************)
(* Properties.                                                             *)
(***************************************************************************)

\* The table account as the handlers read it.
TableView == deserialize(table.data)

\* The table account holds an initialized lookup table.
Initialized == table.owner = ProgramId /\ TableView.err = "Ok"

\* The result of a close by the table's authority, with a distinct writable
\* recipient, in the current state.
ValidCloseResult ==
    process_close_lookup_table(table, payer, recipient, U64(slot), slot_hashes, ValidClose)

\* C1: for a table deactivated at slot d, a close by the correct signing
\* authority with a distinct writable recipient at slot c fails with
\* InvalidArgument whenever 0 <= c - d <= 511 and succeeds when c - d = 512.
C1_CloseCoolDown512 ==
    (Initialized /\ TableView.meta.authority = Some(AuthorityA)
        /\ TableView.meta.deactivation_slot # U64_MAX) =>
        LET d == U64ToNat(TableView.meta.deactivation_slot)
        IN  /\ (0 <= slot - d /\ slot - d <= 511) => ValidCloseResult.err = "InvalidArgument"
            /\ slot - d = 512 => ValidCloseResult.err = "Ok"

\* The close of the authority has just been refused, 512 slots after the
\* deactivation: every slot in between has left a slot hash, and the
\* deactivation slot is the oldest of the MAX_ENTRIES slot hashes.
C1_Witness ==
    /\ Initialized
    /\ hist.deactivated
    /\ slot - U64ToNat(TableView.meta.deactivation_slot) = 512
    /\ SlotHashesPosition(slot_hashes, TableView.meta.deactivation_slot) = Some(MAX_ENTRIES - 1)
    /\ last = [ix |-> "close", err |-> "InvalidArgument"]
    /\ ValidCloseResult.err = "InvalidArgument"

\* Every close the model's instructions range over at a state: any authority
\* key, signing or not, any recipient, any writable flags.
AllCloseInputs ==
    [authority : Authorities, authority_signer : BOOLEAN, recipient_is_table : BOOLEAN,
     recipient_writable : BOOLEAN, table_writable : BOOLEAN, n_accounts : {2, 3}]

CloseResult(ix) ==
    process_close_lookup_table(table, payer, recipient, U64(slot), slot_hashes, ix)

\* C2: a close succeeds only on a table that an earlier successful deactivate
\* deactivated; on a table whose deactivation_slot is MAX no close succeeds,
\* and the close of its authority fails with InvalidArgument, in every slot.
C2_CloseOnlyAfterDeactivate ==
    /\ hist.closed => hist.deactivated
    /\ (Initialized /\ TableView.meta.deactivation_slot = U64_MAX) =>
        /\ \A ix \in AllCloseInputs : CloseResult(ix).err # "Ok"
        /\ TableView.meta.authority = Some(AuthorityA) =>
                ValidCloseResult.err = "InvalidArgument"

\* A close has just succeeded, on a table deactivated before.
C2_Witness ==
    /\ last = [ix |-> "close", err |-> "Ok"]
    /\ hist.deactivated
    /\ slot > MAX_ENTRIES

\* C3: a successful close leaves the table account with no data and no
\* lamports, still owned by the program, and the recipient with its previous
\* lamports plus the table's previous lamports.
C3_CloseDrains ==
    [][(last' = [ix |-> "close", err |-> "Ok"]) =>
            /\ table'.data = <<>>
            /\ table'.lamports = U64_ZERO
            /\ table'.owner = ProgramId
            /\ U64CheckedAdd(recipient, table.lamports) = Some(recipient')
            /\ U64CheckedAdd(recipient', table'.lamports)
                    = U64CheckedAdd(recipient, table.lamports)
            /\ table.lamports # U64_ZERO]_vars

\* A table with an address has just been closed and its lamports moved.
C3_Witness ==
    /\ last = [ix |-> "close", err |-> "Ok"]
    /\ table = [owner |-> ProgramId, lamports |-> U64_ZERO, data |-> <<>>]
    /\ recipient = U64WrappingAdd(U64(5),
                        minimum_balance(LOOKUP_TABLE_META_SIZE + PUBKEY_BYTES))

\* Every extend, freeze and deactivate the properties range over at a state.
AllExtendInputs ==
    [authority : Authorities, authority_signer : BOOLEAN,
     new_addresses : {<<>>, <<Key3>>, <<Key4, Key3>>},
     table_writable : BOOLEAN, payer_signer : BOOLEAN, n_accounts : {1, 2, 4}]

AllFreezeInputs == [authority : Authorities, authority_signer : BOOLEAN, n_accounts : {1, 2}]

AllDeactivateInputs == AllFreezeInputs

ExtendResult(ix) == process_extend_lookup_table(table, payer, recipient, U64(slot), ix)

FreezeResult(ix) == process_freeze_lookup_table(table, payer, recipient, ix)

DeactivateResult(ix) == process_deactivate_lookup_table(table, payer, recipient, U64(slot), ix)

CreateResult(ix) == process_create_lookup_table(table, payer, recipient, slot_hashes, ix)

\* C4, in a state: on a table a freeze has succeeded on, the authority is
\* absent, no extend, freeze, deactivate or close succeeds whatever its
\* inputs, each of them fails with Immutable when its authority account signs
\* (and, for close, the recipient is not the table itself), and a create
\* leaves the table as it is.
C4_FrozenRejects ==
    hist.frozen =>
        /\ Initialized
        /\ TableView.meta.authority = None
        /\ TableView.addresses # <<>>
        /\ \A ix \in AllExtendInputs :
                /\ ExtendResult(ix).err # "Ok"
                /\ (ix.authority_signer /\ ix.n_accounts >= 2)
                        => ExtendResult(ix).err = "Immutable"
        /\ \A ix \in AllFreezeInputs :
                /\ FreezeResult(ix).err # "Ok"
                /\ (ix.authority_signer /\ ix.n_accounts >= 2)
                        => FreezeResult(ix).err = "Immutable"
        /\ \A ix \in AllDeactivateInputs :
                /\ DeactivateResult(ix).err # "Ok"
                /\ (ix.authority_signer /\ ix.n_accounts >= 2)
                        => DeactivateResult(ix).err = "Immutable"
        /\ \A ix \in AllCloseInputs :
                /\ CloseResult(ix).err # "Ok"
                /\ (ix.authority_signer /\ ix.n_accounts >= 3 /\ ~ix.recipient_is_table)
                        => CloseResult(ix).err = "Immutable"
        /\ \A ix \in CreateInputs : CreateResult(ix).table = table

C5_Handler(r, ix) ==
    /\ r.err = "Ok" =>
            /\ ix.authority_signer
            /\ TableView.meta.authority = Some(ix.authority)
            /\ TableView.meta.deactivation_slot = U64_MAX
    /\ (ix.n_accounts >= 2 /\ ~ix.authority_signer) =>
            (r.err = "MissingRequiredSignature" /\ r.table = table)
    /\ (ix.n_accounts >= 2 /\ ix.authority_signer /\ IsSome(TableView.meta.authority)
            /\ TableView.meta.authority # Some(ix.authority)) =>
            (r.err = "IncorrectAuthority" /\ r.table = table)

C5_AuthorityState ==
    Initialized =>
        /\ \A ix \in AllExtendInputs : C5_Handler(ExtendResult(ix), ix)
        /\ \A ix \in AllFreezeInputs : C5_Handler(FreezeResult(ix), ix)
        /\ \A ix \in AllDeactivateInputs : C5_Handler(DeactivateResult(ix), ix)

\* C5: every successful extend, freeze or deactivate was executed with a
\* signing authority account whose key equals the table's stored authority,
\* on a table whose deactivation_slot is MAX; a non-signing authority fails
\* MissingRequiredSignature and a signer other than the stored authority
\* fails IncorrectAuthority, and the table is left unchanged.
C5_MutationNeedsAuthority ==
    /\ []C5_AuthorityState
    /\ [][(last'.ix \in {"extend", "freeze", "deactivate"}
            /\ last'.err \in {"MissingRequiredSignature", "IncorrectAuthority"})
                => table' = table]_vars

\* An extend signed by another key than the stored authority has just failed
\* on a table that holds addresses.
C5_Witness ==
    /\ last = [ix |-> "extend", err |-> "IncorrectAuthority"]
    /\ Initialized
    /\ TableView.meta.authority = Some(AuthorityA)
    /\ Len(TableView.addresses) = 2

\* s is a prefix of t.
IsPrefix(s, t) == Len(s) <= Len(t) /\ SubSeq(t, 1, Len(s)) = s

\* C6: address visibility.  After any sequence of extends under a
\* non-decreasing clock, a lookup at the current slot c on an active table
\* resolves exactly the indices of the addresses appended in slots earlier
\* than c, each to its address; the index of an address appended in slot c
\* itself, like an index past the end, fails with InvalidLookupIndex.
C6_AddressVisibility ==
    (Initialized /\ is_active(TableView.meta, U64(slot))) =>
        /\ Len(hist.append_slots) = Len(TableView.addresses)
        /\ \A i \in 0..Len(TableView.addresses) :
            LET r == lookup(TableView, U64(slot), <<i>>)
            IN  IF i < Len(TableView.addresses) /\ hist.append_slots[i + 1] < slot
                THEN r.err = "Ok" /\ r.addresses = <<TableView.addresses[i + 1]>>
                ELSE r.err = "InvalidLookupIndex"

\* The table holds an address appended in an earlier slot and two appended by
\* two extends in the current slot.
C6_Witness ==
    /\ Initialized
    /\ Len(hist.append_slots) = 3
    /\ hist.append_slots[1] < slot
    /\ hist.append_slots[2] = slot
    /\ hist.append_slots[3] = slot
    /\ TableView.meta.last_extended_slot_start_index = 1
    /\ lookup(TableView, U64(slot), <<0>>).err = "Ok"
    /\ lookup(TableView, U64(slot), <<1>>).err = "InvalidLookupIndex"

\* C7: after a successful extend of a table holding old addresses,
\* last_extended_slot is the current slot, last_extended_slot_start_index is
\* old if and only if the current slot differs from the previous
\* last_extended_slot, and in the same slot the start index keeps its value.
C7_ExtendSlotBookkeeping ==
    Initialized =>
        \A ix \in AllExtendInputs :
            LET r == ExtendResult(ix)
                old == Len(TableView.addresses)
                before == TableView.meta
                after == deserialize(r.table.data).meta
            IN  r.err = "Ok" =>
                    /\ after.last_extended_slot = U64(slot)
                    /\ (after.last_extended_slot_start_index = old)
                            <=> (U64(slot) # before.last_extended_slot)
                    /\ (U64(slot) = before.last_extended_slot) =>
                            after.last_extended_slot_start_index
                                = before.last_extended_slot_start_index

\* A second extend in a slot has kept a start index below the length the
\* table had before it.
C7_Witness ==
    /\ last = [ix |-> "extend", err |-> "Ok"]
    /\ Initialized
    /\ TableView.meta.last_extended_slot = U64(slot)
    /\ Len(TableView.addresses) = 3
    /\ TableView.meta.last_extended_slot_start_index = 0
    /\ hist.append_slots = <<slot, slot, slot>>

\* C8: after a successful extend of a table holding old addresses with k > 0
\* new keys, the table holds old + k addresses, the last k are the supplied
\* keys in the supplied order, the first old are unchanged, the data length is
\* 56 + 32 * (old + k), and deactivation_slot and authority are unchanged.
C8_ExtendAppends ==
    Initialized =>
        \A ix \in AllExtendInputs :
            LET r == ExtendResult(ix)
                old == Len(TableView.addresses)
                k == Len(ix.new_addresses)
                after == deserialize(r.table.data)
            IN  r.err = "Ok" =>
                    /\ k > 0
                    /\ after.err = "Ok"
                    /\ Len(after.addresses) = old + k
                    /\ SubSeq(after.addresses, old + 1, old + k) = ix.new_addresses
                    /\ SubSeq(after.addresses, 1, old) = TableView.addresses
                    /\ Len(r.table.data) = 56 + 32 * (old + k)
                    /\ after.meta.deactivation_slot = TableView.meta.deactivation_slot
                    /\ after.meta.authority = TableView.meta.authority

\* Two keys have just been appended, in their order, to a table that held one.
C8_Witness ==
    /\ last = [ix |-> "extend", err |-> "Ok"]
    /\ Initialized
    /\ TableView.addresses = <<Key3, Key4, Key3>>
    /\ Len(table.data) = 56 + 32 * 3

\* C9: the address list is append-only.  Up to a successful close, the
\* address list of a state is a prefix of the address list of the next, and
\* so of every later one: no instruction removes, reorders or rewrites an
\* address; the table stops being initialized only by a successful close.
C9_AppendOnly ==
    [][Initialized =>
        IF last' = [ix |-> "close", err |-> "Ok"]
        THEN ~Initialized'
        ELSE Initialized' /\ IsPrefix(TableView.addresses, TableView'.addresses)]_vars

\* A table extended by two extends has then been deactivated, keeping its
\* addresses.
C9_Witness ==
    /\ last = [ix |-> "deactivate", err |-> "Ok"]
    /\ Initialized
    /\ TableView.addresses = <<Key3, Key4, Key3>>
    /\ hist.append_slots = <<1, 2, 2>>

\* C10: in every reachable state, a table account that has been created and
\* not closed holds an initialized table whose data length is 56 + 32 * n
\* for its number of addresses n, with 0 <= n <= 256; no extend of any
\* chunk takes it past 256 addresses.
C10_DataLength ==
    (hist.created /\ ~hist.closed) =>
        /\ Initialized
        /\ \E n \in 0..256 :
            /\ Len(table.data) = 56 + 32 * n
            /\ Len(TableView.addresses) = n
        /\ \A k \in CapChunks :
            ExtendResult(CapExtend(TableLen(table), k)).err = "Ok" =>
                Len(TableView.addresses) + k <= 256

\* The table is full, and a further extend has just been refused.
C10_Witness ==
    /\ hist.created
    /\ Initialized
    /\ Len(TableView.addresses) = 256
    /\ Len(table.data) = 56 + 32 * 256
    /\ last = [ix |-> "extend", err |-> "InvalidArgument"]

\* The numbers of new keys the capacity property asks about in every state.
CapRequests == {0, 1, 2} \cup CapChunks

\* C11: extend capacity errors.  On an active table whose authority signs,
\* holding old addresses, an extend by k <= 38 keys fails with
\* InvalidArgument when old = 256; otherwise with InvalidInstructionData
\* when k = 0 or old + k > 256; otherwise it succeeds, old + k = 256
\* included (218 + 38 and 255 + 1 succeed, 219 + 38 and 255 + 2 fail, and
\* from empty the 7th extend by 38 fails).
C11_ExtendCapacity ==
    (Initialized /\ TableView.meta.authority = Some(AuthorityA)
        /\ TableView.meta.deactivation_slot = U64_MAX) =>
        \A k \in CapRequests :
            LET old == Len(TableView.addresses)
                r == ExtendResult(CapExtend(old, k))
            IN  /\ k <= MAX_NEW_KEYS_VECTOR_LEN
                /\ r.err = IF old = 256 THEN "InvalidArgument"
                           ELSE IF k = 0 \/ old + k > 256 THEN "InvalidInstructionData"
                           ELSE "Ok"

\* Two extends by 1 have just brought the table to 218 addresses, and an
\* extend by 38 fills it exactly.
C11_Witness ==
    /\ last = [ix |-> "extend", err |-> "Ok"]
    /\ Initialized
    /\ Len(TableView.addresses) = 218
    /\ TableView.addresses[218] = Pubkey(218)
    /\ LET r == ExtendResult(CapExtend(218, MAX_NEW_KEYS_VECTOR_LEN))
       IN  /\ r.err = "Ok"
           /\ Len(deserialize(r.table.data).addresses) = 256

\* Every create the properties range over at a state.
AllCreateInputs ==
    [recent_slot : {U64(0), U64(1), U64(2), U64_MAX}, bump_seed : {255, 254, 253},
     authority : Authorities, payer_signer : BOOLEAN, n_accounts : {2, 3, 4}]

\* C12: after a successful create on an account not yet owned by the
\* program, the table account is owned by the program, its data length is
\* 56, its lamports are at least the rent-exempt minimum for 56 bytes, the
\* payer having been debited exactly the shortfall, and its meta has the
\* authority key, deactivation_slot MAX, last_extended_slot 0,
\* last_extended_slot_start_index 0, and no addresses.
C12_CreatePostState ==
    table.owner # ProgramId =>
        \A ix \in AllCreateInputs :
            LET r == CreateResult(ix)
                shortfall == U64SaturatingSub(minimum_balance(56), table.lamports)
                after == deserialize(r.table.data)
            IN  r.err = "Ok" =>
                    /\ r.table.owner = ProgramId
                    /\ Len(r.table.data) = 56
                    /\ U64Le(minimum_balance(56), r.table.lamports)
                    /\ U64CheckedAdd(table.lamports, shortfall) = Some(r.table.lamports)
                    /\ U64Le(shortfall, payer)
                    /\ r.payer = U64WrappingSub(payer, shortfall)
                    /\ after.err = "Ok"
                    /\ after.meta.authority = Some(ix.authority)
                    /\ after.meta.deactivation_slot = U64_MAX
                    /\ after.meta.last_extended_slot = U64_ZERO
                    /\ after.meta.last_extended_slot_start_index = 0
                    /\ after.addresses = <<>>

\* A create has just initialized a table account that held PartLamports: the
\* payer has paid the rest of the rent of 56 bytes.
C12_Witness ==
    /\ last = [ix |-> "create", err |-> "Ok"]
    /\ hist.created
    /\ table.owner = ProgramId
    /\ table.data = SerializeProgramState(
            [tag |-> "LookupTable", meta |-> LookupTableMetaNew(AuthorityA)])
    /\ table.lamports = minimum_balance(56)
    /\ U64CheckedAdd(payer, U64SaturatingSub(minimum_balance(56), U64(PartLamports)))
            = Some(minimum_balance(LOOKUP_TABLE_META_SIZE + PayerAddresses * PUBKEY_BYTES))

\* The result of the create with the table's seeds, signed by a payer of
\* pay lamports, in the current state.
RepeatedCreate(pay) ==
    process_create_lookup_table(table, pay, recipient, slot_hashes, ValidCreate)

\* C13 as stated: a create with the same (authority, recent_slot, bump) on a
\* table account the program already owns returns success and changes
\* nothing, whatever the payer holds and whatever has happened to the table.
C13_CreateIdempotentAlways ==
    table.owner = ProgramId =>
        \A pay \in {payer, U64_ZERO} :
            /\ RepeatedCreate(pay).err = "Ok"
            /\ RepeatedCreate(pay).table = table
            /\ RepeatedCreate(pay).payer = pay

\* C13, amended: a create with the same (authority, recent_slot, bump) on a
\* table account the program already owns changes nothing (table data,
\* table lamports, payer lamports), whatever the payer holds and whether the
\* table has been extended, frozen, deactivated or closed; it returns
\* success while recent_slot is in the slot hashes, and
\* InvalidInstructionData once recent_slot has left them.
C13_CreateIdempotentInWindow ==
    table.owner = ProgramId =>
        \A pay \in {payer, U64_ZERO} :
            /\ RepeatedCreate(pay).table = table
            /\ RepeatedCreate(pay).payer = pay
            /\ RepeatedCreate(pay).recipient = recipient
            /\ RepeatedCreate(pay).err =
                    IF IsSome(SlotHashesGet(slot_hashes, ValidCreate.recent_slot))
                    THEN "Ok" ELSE "InvalidInstructionData"

\* A second create has just succeeded on a table that has been extended and
\* deactivated since the first, and has changed nothing.
C13_Witness ==
    /\ last = [ix |-> "create", err |-> "Ok"]
    /\ hist.created
    /\ hist.deactivated
    /\ Initialized
    /\ TableView.addresses = <<Key3>>
    /\ TableView.meta.deactivation_slot # U64_MAX

\* The slot is one of the slot hashes.
InWindow(recent_slot) == \E i \in 1..Len(slot_hashes) : U64(slot_hashes[i]) = recent_slot

\* C14: a create succeeds only if its recent_slot is in the slot hashes at
\* execution; with a signing payer and a recent_slot outside them (the
\* current slot, a later slot, u64::MAX) it fails with
\* InvalidInstructionData and changes no account.
C14_CreateNeedsRecentSlot ==
    \A ix \in AllCreateInputs :
        LET r == CreateResult(ix)
        IN  /\ r.err = "Ok" => InWindow(ix.recent_slot)
            /\ (ix.n_accounts >= 3 /\ ix.payer_signer /\ ~InWindow(ix.recent_slot)) =>
                    /\ r.err = "InvalidInstructionData"
                    /\ r.table = table
                    /\ r.payer = payer
                    /\ r.recipient = recipient

\* A create has just been refused for its recent_slot in slot 2, where the
\* slot hashes hold slots 1 and 0; nothing has been created.
C14_Witness ==
    /\ last = [ix |-> "create", err |-> "InvalidInstructionData"]
    /\ slot = 2
    /\ slot_hashes = <<1, 0>>
    /\ table = NewTable
    /\ ~hist.created
    /\ CreateResult(ValidCreate).err = "Ok"
    /\ CreateResult([ValidCreate EXCEPT !.recent_slot = U64(2)]).err = "InvalidInstructionData"

\* C15: a table address is initialized at most once.  Once a create has
\* initialized the table, no later create, whatever its inputs, writes the
\* table account: not while the program owns it, and not after the table has
\* been deactivated and closed and its account dropped.
C15_InitializedOnce ==
    hist.created =>
        /\ \A ix \in CreateInputs :
                CreateResult(ix).err = "Ok" => CreateResult(ix).table = table
        /\ hist.closed => ~Initialized

\* The table has been closed and its account dropped, and a create with the
\* table's seeds has just been refused.
C15_Witness ==
    /\ hist.created
    /\ hist.closed
    /\ table = NewTable
    /\ last = [ix |-> "create", err |-> "InvalidInstructionData"]

\* C16: a successful freeze sets authority to None and leaves
\* deactivation_slot, last_extended_slot, last_extended_slot_start_index,
\* every address, the data length and the lamports of the table unchanged.
C16_FreezeFrame ==
    Initialized =>
        \A ix \in AllFreezeInputs :
            LET r == FreezeResult(ix)
                after == deserialize(r.table.data)
            IN  r.err = "Ok" =>
                    /\ after.err = "Ok"
                    /\ after.meta.authority = None
                    /\ after.meta.deactivation_slot = TableView.meta.deactivation_slot
                    /\ after.meta.last_extended_slot = TableView.meta.last_extended_slot
                    /\ after.meta.last_extended_slot_start_index
                            = TableView.meta.last_extended_slot_start_index
                    /\ after.addresses = TableView.addresses
                    /\ Len(r.table.data) = Len(table.data)
                    /\ r.table.lamports = table.lamports
                    /\ r.table.owner = table.owner

\* A table extended in slots 1 and 2 has just been frozen in slot 2.
C16_Witness ==
    /\ last = [ix |-> "freeze", err |-> "Ok"]
    /\ Initialized
    /\ TableView.meta.authority = None
    /\ TableView.meta.last_extended_slot = U64(2)
    /\ TableView.meta.last_extended_slot_start_index = 1
    /\ TableView.addresses = <<Key3, Key4, Key3>>

\* C17: freeze preconditions, with a signing authority.  Freezing a table
\* with zero addresses fails with InvalidInstructionData, freezing a table
\* whose deactivation_slot is not MAX fails with InvalidArgument, freezing a
\* frozen table fails with Immutable; each time the table is unchanged.
C17_FreezePreconditions ==
    Initialized =>
        \A ix \in AllFreezeInputs :
            (ix.authority_signer /\ ix.n_accounts >= 2) =>
                /\ TableView.meta.authority = None =>
                        FreezeResult(ix).err = "Immutable"
                /\ (TableView.meta.authority = Some(ix.authority)
                        /\ TableView.meta.deactivation_slot # U64_MAX) =>
                        FreezeResult(ix).err = "InvalidArgument"
                /\ (TableView.meta.authority = Some(ix.authority)
                        /\ TableView.meta.deactivation_slot = U64_MAX
                        /\ TableView.addresses = <<>>) =>
                        FreezeResult(ix).err = "InvalidInstructionData"
                /\ FreezeResult(ix).err # "Ok" => FreezeResult(ix).table = table

\* The freeze of an empty table by its authority has just been refused.
C17_Witness ==
    /\ last = [ix |-> "freeze", err |-> "InvalidInstructionData"]
    /\ Initialized
    /\ TableView.addresses = <<>>
    /\ TableView.meta.authority = Some(AuthorityA)
    /\ TableView.meta.deactivation_slot = U64_MAX

\* C18: a successful deactivate sets deactivation_slot to the current clock
\* slot and leaves every other meta field and every address unchanged; the
\* deactivate of the authority succeeds on an active table, an empty one
\* included; on a table already deactivated it fails with InvalidArgument,
\* and on a frozen table with Immutable.
C18_Deactivate ==
    Initialized =>
        \A ix \in AllDeactivateInputs :
            LET r == DeactivateResult(ix)
                after == deserialize(r.table.data)
                signed == ix.authority_signer /\ ix.n_accounts >= 2
            IN  /\ r.err = "Ok" =>
                    /\ after.err = "Ok"
                    /\ after.meta = [TableView.meta EXCEPT !.deactivation_slot = U64(slot)]
                    /\ after.addresses = TableView.addresses
                    /\ r.table.lamports = table.lamports
                /\ (signed /\ TableView.meta.authority = Some(ix.authority)) =>
                    r.err = IF TableView.meta.deactivation_slot = U64_MAX
                            THEN "Ok" ELSE "InvalidArgument"
                /\ (signed /\ TableView.meta.authority = None) => r.err = "Immutable"

\* An empty table has just been deactivated in slot 2.
C18_Witness ==
    /\ last = [ix |-> "deactivate", err |-> "Ok"]
    /\ Initialized
    /\ TableView.addresses = <<>>
    /\ slot = 2
    /\ TableView.meta.deactivation_slot = U64(2)
    /\ DeactivateResult(ValidDeactivate).err = "InvalidArgument"

\* The number of slots from the deactivation slot to the current slot of
\* the status call, as a u64.
ProbeElapsed == U64WrappingSub(probe.current_slot, probe.deactivation_slot)

C20_SameSlot513 ==
    (probe.fn = "status_done" /\ probe.deactivation_slot # U64_MAX
        /\ probe.current_slot = probe.deactivation_slot) =>
        /\ probe.handler_status = Deactivating(513)
        /\ probe.status = Deactivating(513)

\* The two computations have been made for the deactivation slot itself and
\* differ: 513 remaining blocks in the handler, 512 in LookupTableMeta::status.
C20_Witness ==
    /\ probe.fn = "status_done"
    /\ probe.deactivation_slot = U64(512)
    /\ probe.current_slot = U64(512)
    /\ probe.handler_status = Deactivating(513)
    /\ probe.status = Deactivating(512)

\* The extends of the table's signing authority on a table account passed
\* read-only: one or two new addresses, with or without the payer and system
\* program accounts, the payer signing or not.
ReadonlyExtendInputs ==
    {[ValidExtend EXCEPT !.table_writable = FALSE, !.new_addresses = a,
                         !.payer_signer = s, !.n_accounts = n] :
        a \in {<<Key3>>, <<Key4, Key3>>}, s \in BOOLEAN, n \in {2, 3, 4}}

\* C21: an extend on a table account passed read-only fails with custom error
\* 10 (ReadonlyDataModified), and the check comes before every rent, payer and
\* system program check: the error is the same when the payer is missing,
\* does not sign or holds too few lamports.
C21_ExtendReadonlyFirst ==
    (Initialized /\ TableView.meta.authority = Some(AuthorityA)
        /\ TableView.meta.deactivation_slot = U64_MAX) =>
        \A ix \in ReadonlyExtendInputs :
            /\ ExtendResult(ix).err = "Custom(10)"
            /\ ExtendResult(ix).table = table
            /\ ExtendResult(ix).payer = payer

\* An extend of a read-only table has just failed with custom error 10 in a
\* state where the payer cannot pay the rent of one more address: the same
\* extend on the writable table fails in the transfer, without the payer
\* accounts for want of accounts, and with a payer that does not sign for
\* want of its signature.
C21_Witness ==
    /\ last = [ix |-> "extend", err |-> "Custom(10)"]
    /\ Initialized
    /\ U64Lt(payer, RequiredLamports(Len(table.data) + PUBKEY_BYTES, table.lamports))
    /\ ExtendResult(ValidExtend).err = "Custom(1)"
    /\ ExtendResult([ValidExtend EXCEPT !.n_accounts = 2]).err = "NotEnoughAccountKeys"
    /\ ExtendResult([ValidExtend EXCEPT !.payer_signer = FALSE]).err
            = "MissingRequiredSignature"
    /\ ExtendResult([ValidExtend EXCEPT !.table_writable = FALSE]).err = "Custom(10)"

\* The extend of the table's signing authority, by the new addresses a, with
\* the table and authority accounts only.
ExtendWithoutPayer(a) == [ValidExtend EXCEPT !.new_addresses = a, !.n_accounts = 2]

\* C22, in a state, for an extend to data length L: when the table's lamports
\* cover the rent-exempt minimum for L, the extend succeeds with the table
\* and authority accounts only and moves no lamports; when they do not and
\* no payer account is passed, it fails with NotEnoughAccountKeys.
C22_WithoutPayer ==
    (Initialized /\ TableView.meta.authority = Some(AuthorityA)
        /\ TableView.meta.deactivation_slot = U64_MAX) =>
        \A a \in {<<Key3>>, <<Key4, Key3>>} :
            LET L == Len(table.data) + Len(a) * PUBKEY_BYTES
                r == ExtendResult(ExtendWithoutPayer(a))
            IN  IF U64Le(minimum_balance(L), table.lamports)
                THEN /\ r.err = "Ok"
                     /\ Len(r.table.data) = L
                     /\ r.table.lamports = table.lamports
                     /\ r.payer = payer
                ELSE r.err = "NotEnoughAccountKeys"

\* C22: after a successful extend to data length L the table's lamports are
\* max(previous lamports, rent-exempt minimum for L) and the payer is
\* debited exactly the difference; an extend whose table already holds the
\* minimum succeeds without payer and moves no lamports, and one whose table
\* does not fails with NotEnoughAccountKeys when no payer is passed.
C22_ExtendRentTopUp ==
    /\ []C22_WithoutPayer
    /\ [][(last' = [ix |-> "extend", err |-> "Ok"]) =>
            /\ table'.lamports
                    = U64Max(table.lamports, minimum_balance(Len(table'.data)))
            /\ U64CheckedAdd(payer', U64WrappingSub(table'.lamports, table.lamports))
                    = Some(payer)
            /\ recipient' = recipient]_vars

\* A table whose lamports were paid in before its creation has just been
\* extended to two addresses without moving a lamport, the payer still holds
\* what it held at the start, and a third address needs the payer: without
\* the payer account the extend fails with NotEnoughAccountKeys, with it the
\* payer is debited the rent of one address.
C22_Witness ==
    /\ last = [ix |-> "extend", err |-> "Ok"]
    /\ Initialized
    /\ Len(TableView.addresses) = 2
    /\ table.lamports = minimum_balance(LOOKUP_TABLE_META_SIZE + 2 * PUBKEY_BYTES)
    /\ payer = minimum_balance(LOOKUP_TABLE_META_SIZE + PayerAddresses * PUBKEY_BYTES)
    /\ ExtendResult(ExtendWithoutPayer(<<Key3>>)).err = "NotEnoughAccountKeys"
    /\ ExtendResult(ValidExtend).err = "Ok"
    /\ ExtendResult(ValidExtend).table.lamports
            = minimum_balance(LOOKUP_TABLE_META_SIZE + 3 * PUBKEY_BYTES)
    /\ U64WrappingSub(payer, ExtendResult(ValidExtend).payer)
            = U64(PUBKEY_BYTES * DEFAULT_LAMPORTS_PER_BYTE_YEAR * DEFAULT_EXEMPTION_THRESHOLD)

DecodedExtend ==
    /\ probe.fn = "decode_done"
    /\ Len(probe.input) >= 12
    /\ SubSeq(probe.input, 1, 4) = U32LE(2)

\* C24: decoding an ExtendLookupTable instruction whose 8-byte vector length
\* exceeds 38 fails with InvalidInstructionData, whatever bytes follow; a
\* length of at most 38 followed by that number of 32-byte keys decodes to
\* those keys in order.  38 = (1232 - 4 - 8) / 32 rounded down: an
\* instruction of 38 keys fits in 1232 bytes and is within the limit of
\* limited_deserialize, one of 39 keys does not and is not.
C24_ExtendVectorLen ==
    /\ MAX_NEW_KEYS_VECTOR_LEN = 38
    /\ DecodedExtend =>
        LET vector_len == SubSeq(probe.input, 5, 12)
            n == U64ToNat(vector_len)
            exact == U64Le(vector_len, U64(DecodeMaxKeys))
                        /\ Len(probe.input) = 12 + n * PUBKEY_BYTES
        IN  /\ U64Lt(U64(38), vector_len) => probe.result = DecodeError
            /\ (U64Le(vector_len, U64(38)) /\ exact) =>
                /\ probe.result.err = "Ok"
                /\ probe.result.instruction.tag = "ExtendLookupTable"
                /\ Len(probe.result.instruction.new_addresses) = n
                /\ \A i \in 1..n :
                        probe.result.instruction.new_addresses[i]
                            = SubSeq(probe.input, 12 + (i - 1) * PUBKEY_BYTES + 1,
                                     12 + i * PUBKEY_BYTES)
                /\ Len(probe.input) <= MAX_INPUT_LEN
                /\ probe.limited = probe.result
            /\ (vector_len = U64(39) /\ exact) =>
                /\ Len(probe.input) > MAX_INPUT_LEN
                /\ probe.limited = DecodeError

\* The data of an ExtendLookupTable of 39 keys, length prefix 39, has been
\* decoded and refused.
C24_Witness ==
    /\ probe.fn = "decode_done"
    /\ probe.input = SerializeInstruction(ExtendLookupTable(DecodeKeys(39)))
    /\ SubSeq(probe.input, 5, 12) = U64(39)
    /\ Len(probe.input) = 4 + 8 + 39 * 32
    /\ probe.result.err = "InvalidInstructionData"

\* C25: the decoder accepts only input of at most 1232 bytes: every input
\* longer than 1232 bytes fails with InvalidInstructionData, whatever the
\* variant, a valid short instruction followed by trailing bytes included.
C25_InputLengthCap ==
    (probe.fn = "decode_done" /\ Len(probe.input) > MAX_INPUT_LEN) =>
        probe.result.err = "InvalidInstructionData"

\* The 4 bytes of a FreezeLookupTable followed by zero bytes, 1233 bytes in
\* all, have been decoded to FreezeLookupTable.
C25_Witness ==
    /\ probe.fn = "decode_done"
    /\ Len(probe.input) = MAX_INPUT_LEN + 1
    /\ SubSeq(probe.input, 1, 4) = SerializeInstruction(FreezeLookupTable)
    /\ probe.result = [err |-> "Ok", instruction |-> FreezeLookupTable]

\* C26: for every table t of 0 to 256 addresses and any meta (authority
\* present or absent, any deactivation_slot), serialize_for_tests(t) has
\* length 56 + 32 * (number of addresses) and deserialize of it is t.
C26_CodecRoundTrip ==
    probe.fn = "round_trip_done" =>
        /\ probe.serialized.err = "Ok"
        /\ Len(probe.serialized.data)
                = 56 + 32 * Len(probe.lookup_table.addresses)
        /\ probe.deserialized
                = [err |-> "Ok", meta |-> probe.lookup_table.meta,
                   addresses |-> probe.lookup_table.addresses]

\* A frozen, deactivated table of 256 addresses with a padding that is not
\* zero has been serialized to 56 + 32 * 256 bytes and read back.
C26_Witness ==
    /\ probe.fn = "round_trip_done"
    /\ Len(probe.lookup_table.addresses) = LOOKUP_TABLE_MAX_ADDRESSES
    /\ probe.lookup_table.meta.authority = None
    /\ probe.lookup_table.meta.deactivation_slot = <<5, 0, 0, 0, 1, 0, 0, 0>>
    /\ probe.lookup_table.meta.padding = 513
    /\ Len(probe.serialized.data) = 8248
    /\ probe.deserialized.err = "Ok"
    /\ probe.deserialized.addresses[256] = Pubkey(0)
    /\ probe.deserialized.addresses[255] = Pubkey(255)

\* C27: overwrite_meta_data changes only bytes [0..56] of the buffer: the
\* bytes from offset 56 on are kept, and every byte of [0..56] that the new
\* serialized meta does not cover is zero afterwards (after a freeze, the 32
\* bytes of the former authority key are zero); on a buffer shorter than 56
\* bytes it fails with InvalidAccountData.
C27_OverwriteMetaFrame ==
    probe.fn = "overwrite_done" =>
        IF Len(probe.data) < 56
        THEN probe.result.err = "InvalidAccountData"
        ELSE
            LET written == SerializeProgramState([tag |-> "LookupTable", meta |-> probe.meta])
            IN  /\ probe.result.err = "Ok"
                /\ Len(probe.result.data) = Len(probe.data)
                /\ \A i \in 57..Len(probe.data) : probe.result.data[i] = probe.data[i]
                /\ Len(written) = IF probe.meta.authority = None THEN 24 ELSE 56
                /\ \A i \in 1..56 :
                        probe.result.data[i] = IF i <= Len(written) THEN written[i] ELSE 0
                /\ (probe.meta.authority = None /\ probe.meta.padding = 0) =>
                        SubSeq(probe.result.data, 23, 54) = Zeros(32)
                /\ deserialize(probe.result.data).err = "Ok" =>
                        deserialize(probe.result.data).meta = probe.meta

\* The meta of a table of authority A and two addresses has been overwritten
\* by the same meta without authority, as a freeze does: the 32 bytes that
\* held the key are zero and the two addresses are where they were.
C27_Witness ==
    /\ probe.fn = "overwrite_done"
    /\ probe.data = serialize_for_tests([meta |-> LookupTableMetaNew(AuthorityA),
                                         addresses |-> CodecAddresses(2)]).data
    /\ SubSeq(probe.data, 23, 54) = AuthorityA
    /\ probe.meta = LookupTableMetaDefault
    /\ probe.result.err = "Ok"
    /\ SubSeq(probe.result.data, 23, 54) = Zeros(32)
    /\ SubSeq(probe.result.data, 57, 120) = Pubkey(1) \o Pubkey(2)

\* C28: lookup at slot c fails with LookupTableAccountNotFound exactly when
\* the table's status at c is Deactivated; a table in Deactivating status,
\* the slot of its deactivation included, resolves its addresses like an
\* active one: it returns them in the order of the requested indexes, and
\* fails with InvalidLookupIndex when a requested index is not below the
\* active length.
C28_LookupByStatus ==
    probe.fn = "lookup_done" =>
        LET t == probe.lookup_table
            active_len == IF U64Lt(t.meta.last_extended_slot, probe.current_slot)
                          THEN Len(t.addresses)
                          ELSE t.meta.last_extended_slot_start_index
        IN  /\ probe.result.err = "LookupTableAccountNotFound"
                    <=> probe.status.kind = "Deactivated"
            /\ probe.status.kind = "Deactivated"
                    <=> /\ t.meta.deactivation_slot # U64_MAX
                        /\ U64Le(U64(512),
                                 U64WrappingSub(probe.current_slot, t.meta.deactivation_slot))
            /\ probe.status.kind # "Deactivated" =>
                IF \E i \in 1..Len(probe.indexes) : probe.indexes[i] >= active_len
                THEN probe.result.err = "InvalidLookupIndex"
                ELSE /\ probe.result.err = "Ok"
                     /\ Len(probe.result.addresses) = Len(probe.indexes)
                     /\ \A i \in 1..Len(probe.indexes) :
                            probe.result.addresses[i] = t.addresses[probe.indexes[i] + 1]

\* A table of three addresses, deactivated at slot 4, has been looked up at
\* slot 4 for the indexes 0, 2, 1: the status is Deactivating and the result
\* the first, third and second address.
C28_Witness ==
    /\ probe.fn = "lookup_done"
    /\ probe.lookup_table.meta.deactivation_slot = U64(4)
    /\ probe.current_slot = U64(4)
    /\ probe.status.kind = "Deactivating"
    /\ probe.indexes = <<0, 2, 1>>
    /\ probe.result = [err |-> "Ok", addresses |-> <<Pubkey(1), Pubkey(3), Pubkey(2)>>]

(***************************************************************************)
(* The check-order specification: one create, extend or close, with any    *)
(* combination of its inputs wrong, on a table account of each kind: not   *)
(* owned by the program, active, frozen or deactivated, full or not, in    *)
(* and after the cool-down, with a recipient whose lamports do and do not  *)
(* overflow.                                                               *)
(***************************************************************************)
OrderCoolSlot == 600

\* The numbers of addresses: one, one less than full, and full.
OrderLens == {1, LOOKUP_TABLE_MAX_ADDRESSES - 1, LOOKUP_TABLE_MAX_ADDRESSES}

\* The metas: the table of authority A, the same frozen, and the same
\* deactivated at slot 0.
OrderMetas ==
    {LookupTableMetaNew(AuthorityA),
     [LookupTableMetaNew(AuthorityA) EXCEPT !.authority = None],
     [LookupTableMetaNew(AuthorityA) EXCEPT !.deactivation_slot = U64_ZERO]}

\* The table account of meta m and n addresses, holding the rent of its data.
OrderAccount(m, n) ==
    LET data == serialize_for_tests([meta |-> m, addresses |-> CodecAddresses(n)]).data
    IN  [owner |-> ProgramId, lamports |-> minimum_balance(Len(data)), data |-> data]

InitOrder ==
    /\ slot \in {1, OrderCoolSlot}
    /\ slot_hashes = SlotHashesAt(slot)
    /\ table \in {NewTable} \cup {OrderAccount(m, n) : m \in OrderMetas, n \in OrderLens}
    /\ payer = minimum_balance(2 * (LOOKUP_TABLE_META_SIZE
                                     + LOOKUP_TABLE_MAX_ADDRESSES * PUBKEY_BYTES))
    /\ recipient \in {U64(5), U64_MAX}
    /\ last = NoInstruction
    /\ hist = NoHistory
    /\ probe = NoProbe

NextOrder ==
    /\ last = NoInstruction
    /\ \/ \E ix \in AllCreateInputs : Create(ix)
       \/ \E ix \in AllExtendInputs : Extend(ix)
       \/ \E ix \in AllCloseInputs : Close(ix)

SpecOrder == InitOrder /\ [][NextOrder]_vars

\* C29: extend, its table and authority accounts present, returns the error
\* of the first check that fails, in this
\* order: program owns table (InvalidAccountOwner), authority signed
\* (MissingRequiredSignature), table not frozen (Immutable), authority key
\* matches (IncorrectAuthority), deactivation_slot = MAX (InvalidArgument),
\* address count < 256 (InvalidArgument), new addresses not empty
\* (InvalidInstructionData), old + new <= 256 (InvalidInstructionData), table
\* writable (custom 10), payer present and signer when rent is due; so a
\* full table extended by no address gives InvalidArgument and a read-only
\* table extended by another key gives IncorrectAuthority.
C29_ExtendCheckOrder ==
    (table.owner # ProgramId \/ TableView.err = "Ok") =>
        \A ix \in {i \in AllExtendInputs : i.n_accounts >= 2} :
            LET old == Len(TableView.addresses)
                new == Len(ix.new_addresses)
                due == RequiredLamports(LOOKUP_TABLE_META_SIZE + (old + new) * PUBKEY_BYTES,
                                        table.lamports)
                first ==
                    IF table.owner # ProgramId THEN "InvalidAccountOwner"
                    ELSE IF ~ix.authority_signer THEN "MissingRequiredSignature"
                    ELSE IF TableView.meta.authority = None THEN "Immutable"
                    ELSE IF TableView.meta.authority # Some(ix.authority)
                    THEN "IncorrectAuthority"
                    ELSE IF TableView.meta.deactivation_slot # U64_MAX THEN "InvalidArgument"
                    ELSE IF old >= 256 THEN "InvalidArgument"
                    ELSE IF new = 0 THEN "InvalidInstructionData"
                    ELSE IF old + new > 256 THEN "InvalidInstructionData"
                    ELSE IF ~ix.table_writable THEN "Custom(10)"
                    ELSE IF due = U64_ZERO THEN "Ok"
                    ELSE IF ix.n_accounts < 3 THEN "NotEnoughAccountKeys"
                    ELSE IF ~ix.payer_signer THEN "MissingRequiredSignature"
                    ELSE "Ok"
            IN  /\ ExtendResult(ix).err = first
                /\ (table.owner = ProgramId /\ old = 256 /\ new = 0
                        /\ ix.authority_signer /\ ix.authority = AuthorityA
                        /\ TableView.meta.authority = Some(AuthorityA)
                        /\ TableView.meta.deactivation_slot = U64_MAX)
                    => ExtendResult(ix).err = "InvalidArgument"
                /\ (table.owner = ProgramId /\ ~ix.table_writable
                        /\ ix.authority_signer /\ ix.authority = AuthorityB
                        /\ TableView.meta.authority = Some(AuthorityA))
                    => ExtendResult(ix).err = "IncorrectAuthority"

\* The authority's extend by no address has been refused with
\* InvalidArgument on its full, active table.
C29_Witness ==
    /\ last = [ix |-> "extend", err |-> "InvalidArgument"]
    /\ Initialized
    /\ Len(TableView.addresses) = LOOKUP_TABLE_MAX_ADDRESSES
    /\ TableView.meta.authority = Some(AuthorityA)
    /\ TableView.meta.deactivation_slot = U64_MAX
    /\ ExtendResult([ValidExtend EXCEPT !.new_addresses = <<>>]).err = "InvalidArgument"

C32_StartIndexFitsU8 ==
    Initialized =>
        \A ix \in AllExtendInputs :
            LET old == Len(TableView.addresses)
                r == ExtendResult(ix)
                after == deserialize(r.table.data)
            IN  /\ r.err # "InvalidAccountData"
                /\ (r.err = "Ok" /\ U64(slot) # TableView.meta.last_extended_slot) =>
                        /\ old <= 255
                        /\ after.meta.last_extended_slot = U64(slot)
                        /\ after.meta.last_extended_slot_start_index = old
                /\ (r.err = "Ok" /\ U64(slot) = TableView.meta.last_extended_slot) =>
                        after.meta.last_extended_slot_start_index
                            = TableView.meta.last_extended_slot_start_index

\* A table of 255 addresses has been extended by one: it is full, the
\* addresses of the slot start at index 255, and no further extend, with or
\* without addresses, gets as far as the conversion.
C32_Witness ==
    /\ last = [ix |-> "extend", err |-> "Ok"]
    /\ Initialized
    /\ Len(TableView.addresses) = LOOKUP_TABLE_MAX_ADDRESSES
    /\ TableView.meta.last_extended_slot = U64(slot)
    /\ TableView.meta.last_extended_slot_start_index = 255
    /\ ExtendResult([ValidExtend EXCEPT !.new_addresses = <<>>]).err = "InvalidArgument"
    /\ ExtendResult(ValidExtend).err = "InvalidArgument"

\* C33: on the data of a table of n addresses,
\* deserialize_addresses_from_index_mut fails with InvalidArgument for an
\* index whose offset 56 + 32 * index is not below the length of the data
\* (index 0 on 56 bytes included) and otherwise gives the addresses from
\* that index to the end.  In extend, the data grown to 56 + 32 * (old + k)
\* bytes gives at index old a slice of exactly k addresses, so the copy of
\* the new addresses never panics and writes exactly the bytes from
\* 56 + 32 * old to 56 + 32 * (old + k).
C33_AddressesFromIndex ==
    Initialized =>
        LET old == Len(TableView.addresses)
        IN  /\ \A index \in {0, 1, 2, 3, 254, 255} :
                    LET slice == deserialize_addresses_from_index_mut(table.data, index)
                    IN  IF 56 + 32 * index >= Len(table.data)
                        THEN slice.err = "InvalidArgument"
                        ELSE /\ slice.err = "Ok"
                             /\ slice.len = old - index
                             /\ SubSeq(table.data, slice.offset + 1, Len(table.data))
                                    = Flatten(SubSeq(TableView.addresses, index + 1, old))
            /\ \A ix \in AllExtendInputs :
                    LET r == ExtendResult(ix)
                        k == Len(ix.new_addresses)
                        grown == Realloc(table.data, 56 + 32 * (old + k))
                    IN  /\ r.err # "panic"
                        /\ r.err = "Ok" =>
                            /\ deserialize_addresses_from_index_mut(grown, old)
                                    = [err |-> "Ok", offset |-> 56 + 32 * old, len |-> k]
                            /\ Len(r.table.data) = 56 + 32 * (old + k)
                            /\ SubSeq(r.table.data, 57, 56 + 32 * old)
                                    = SubSeq(table.data, 57, 56 + 32 * old)
                            /\ SubSeq(r.table.data, 56 + 32 * old + 1, 56 + 32 * (old + k))
                                    = Flatten(ix.new_addresses)

\* A table of one address has been extended by two: the slice at index 1 of
\* its data holds the two new addresses, in order, and there is no slice at
\* index 3.
C33_Witness ==
    /\ last = [ix |-> "extend", err |-> "Ok"]
    /\ Initialized
    /\ TableView.addresses = <<Pubkey(1), Key4, Key3>>
    /\ deserialize_addresses_from_index_mut(table.data, 1)
            = [err |-> "Ok", offset |-> 88, len |-> 2]
    /\ SubSeq(table.data, 89, 152) = Key4 \o Key3
    /\ deserialize_addresses_from_index_mut(table.data, 3).err = "InvalidArgument"

\* C34: in every reachable state a frozen table (authority None) has
\* deactivation_slot MAX and at least one address: no freeze succeeds on a
\* deactivated or an empty table, and no deactivate succeeds on a frozen
\* one.
C34_FrozenIsActiveAndNotEmpty ==
    Initialized =>
        /\ TableView.meta.authority = None =>
                /\ TableView.meta.deactivation_slot = U64_MAX
                /\ TableView.addresses # <<>>
                /\ \A ix \in AllDeactivateInputs : DeactivateResult(ix).err # "Ok"
        /\ (TableView.meta.deactivation_slot # U64_MAX \/ TableView.addresses = <<>>) =>
                \A ix \in AllFreezeInputs : FreezeResult(ix).err # "Ok"

\* A deactivate has been refused with Immutable on a table that was frozen
\* with an address and is still active.
C34_Witness ==
    /\ last = [ix |-> "deactivate", err |-> "Immutable"]
    /\ hist.frozen
    /\ Initialized
    /\ TableView.meta.authority = None
    /\ TableView.meta.deactivation_slot = U64_MAX
    /\ Len(TableView.addresses) >= 1

\* The table is initialized and has been deactivated.
TableIsDeactivated == Initialized /\ TableView.meta.deactivation_slot # U64_MAX

\* On a deactivated table no extend, freeze or deactivate succeeds, and
\* those its signing authority sends fail with InvalidArgument.
C35_LaterInstructionsFail ==
    TableIsDeactivated =>
        /\ \A ix \in ExtendInputs :
                /\ ExtendResult(ix).err # "Ok"
                /\ (ix.n_accounts >= 2 /\ ix.authority_signer
                        /\ Some(ix.authority) = TableView.meta.authority)
                    => ExtendResult(ix).err = "InvalidArgument"
        /\ \A ix \in AllFreezeInputs :
                /\ FreezeResult(ix).err # "Ok"
                /\ (ix.n_accounts >= 2 /\ ix.authority_signer
                        /\ Some(ix.authority) = TableView.meta.authority)
                    => FreezeResult(ix).err = "InvalidArgument"
        /\ \A ix \in AllDeactivateInputs :
                /\ DeactivateResult(ix).err # "Ok"
                /\ (ix.n_accounts >= 2 /\ ix.authority_signer
                        /\ Some(ix.authority) = TableView.meta.authority)
                    => DeactivateResult(ix).err = "InvalidArgument"

\* C35: deactivation is irreversible.  Once a table is deactivated, its
\* deactivation_slot, authority, last_extended_slot,
\* last_extended_slot_start_index and addresses stay as they are in every
\* step until a close empties the account, and every later extend, freeze
\* and deactivate fails, with InvalidArgument when its authority signs.
C35_DeactivationIrreversible ==
    /\ []C35_LaterInstructionsFail
    /\ [][TableIsDeactivated =>
            \/ table'.data = table.data
            \/ /\ last' = [ix |-> "close", err |-> "Ok"]
               /\ table'.data = <<>>]_vars

\* A deactivated table has been closed after the cool-down, more than
\* MAX_ENTRIES slots after its creation.
C35_Witness ==
    /\ last = [ix |-> "close", err |-> "Ok"]
    /\ hist.deactivated
    /\ hist.closed
    /\ slot > MAX_ENTRIES
    /\ table.data = <<>>

\* C36: whenever a close succeeds at slot c, the handler having computed the
\* status from the slot hashes, LookupTableMeta::is_active(c) computed from
\* the slot numbers is false for the table and status(c) is Deactivated: no
\* table is closed in a slot in which lookup still resolves its addresses.
C36_CloseOnlyWhenInactive ==
    [][(Initialized /\ last' = [ix |-> "close", err |-> "Ok"] /\ table'.data = <<>>) =>
            /\ ~is_active(TableView.meta, U64(slot))
            /\ status(TableView.meta, U64(slot)) = Deactivated
            /\ lookup(TableView, U64(slot), <<>>).err = "LookupTableAccountNotFound"
            /\ get_lookup_table_status(TableView.meta.deactivation_slot, U64(slot),
                                       slot_hashes) = Deactivated]_vars

\* The table has been closed in slot 514, the first slot in which a table
\* created and deactivated in slot 1 may be.
C36_Witness ==
    /\ last = [ix |-> "close", err |-> "Ok"]
    /\ slot = MAX_ENTRIES + 2
    /\ Len(slot_hashes) = MAX_ENTRIES
    /\ slot_hashes[MAX_ENTRIES] = 2
    /\ hist.deactivated
    /\ hist.closed
    /\ table.data = <<>>
    /\ ~is_active([LookupTableMetaDefault EXCEPT !.deactivation_slot = U64(1)], U64(slot))
    /\ ~is_active([LookupTableMetaDefault EXCEPT !.deactivation_slot = U64(1)], U64(slot - 1))
    /\ is_active([LookupTableMetaDefault EXCEPT !.deactivation_slot = U64(1)], U64(slot - 2))

\* In every state last_extended_slot_start_index is at most the number of
\* addresses, last_extended_slot at most the clock's slot, and no lookup, at
\* the current or a later slot, takes a slice past the addresses.
C37_StartIndexInBounds ==
    Initialized =>
        /\ TableView.meta.last_extended_slot_start_index <= Len(TableView.addresses)
        /\ U64Le(TableView.meta.last_extended_slot, U64(slot))
        /\ \A c \in slot..(MaxSlot + 1) : \A indexes \in {<<>>, <<0>>, <<1, 0>>, <<2>>, <<255>>} :
                /\ lookup(TableView, U64(c), indexes).err # "panic"
                /\ get_active_addresses_len(TableView, U64(c)).err = "Ok" =>
                        get_active_addresses_len(TableView, U64(c)).len
                            <= Len(TableView.addresses)

\* C37: under a clock that never goes back, in every state reached by
\* create and extend (and the other instructions) the table's
\* last_extended_slot_start_index is at most its number of addresses and
\* last_extended_slot never decreases, so the slice
\* addresses[0..active_addresses_len] of lookup is in bounds and lookup never
\* panics.
C37_LookupNeverPanics ==
    /\ []C37_StartIndexInBounds
    /\ [][(Initialized /\ table'.owner = ProgramId /\ deserialize(table'.data).err = "Ok") =>
            /\ U64Le(TableView.meta.last_extended_slot,
                     deserialize(table'.data).meta.last_extended_slot)
            /\ slot' >= slot]_vars

\* The table was extended by one address in an earlier slot and has been
\* extended by two in slot 2: in slot 2 the lookup resolves index 0 alone,
\* in the next slot every index below 3.
C37_Witness ==
    /\ last = [ix |-> "extend", err |-> "Ok"]
    /\ slot = 2
    /\ Initialized
    /\ Len(TableView.addresses) = 3
    /\ TableView.meta.last_extended_slot = U64(2)
    /\ TableView.meta.last_extended_slot_start_index = 1
    /\ lookup(TableView, U64(2), <<0>>).err = "Ok"
    /\ lookup(TableView, U64(2), <<1, 0>>).err = "InvalidLookupIndex"
    /\ lookup(TableView, U64(3), <<2>>).err = "Ok"

\* The stored authority is the key the table was created with, or None
\* after a freeze.
C38_AuthorityOfCreate ==
    Initialized =>
        /\ TableView.meta.authority \in {Some(TableSeeds.authority), None}
        /\ TableView.meta.authority = None => hist.frozen

\* C38: a table's authority is fixed at creation.  In every state the
\* stored authority is the key given to create or None, and from one state
\* of the table to the next it is unchanged or goes from that key to None
\* by a successful freeze: no instruction stores another key or restores an
\* authority.
C38_AuthorityFixed ==
    /\ []C38_AuthorityOfCreate
    /\ [][(Initialized /\ table'.owner = ProgramId /\ deserialize(table'.data).err = "Ok") =>
            \/ deserialize(table'.data).meta.authority = TableView.meta.authority
            \/ /\ TableView.meta.authority = Some(TableSeeds.authority)
               /\ deserialize(table'.data).meta.authority = None
               /\ last' = [ix |-> "freeze", err |-> "Ok"]]_vars

\* The freeze of another key has been refused on the table created with
\* authority A, which still holds A and which the freeze of A would freeze.
C38_Witness ==
    /\ last = [ix |-> "freeze", err |-> "IncorrectAuthority"]
    /\ hist.created
    /\ Initialized
    /\ TableView.meta.authority = Some(AuthorityA)
    /\ TableView.addresses # <<>>
    /\ deserialize(FreezeResult(ValidFreeze).table.data).meta.authority = None

(***************************************************************************)
(* The cool-down specification under a clock that keeps advancing: the     *)
(* bank moves to the next slot as long as there is one.                    *)
(***************************************************************************)
SpecCoolLive == SpecCool /\ WF_vars(slot < CoolMaxSlot /\ AdvanceSlot(0))

\* The status process_close_lookup_table computes for a table with the
\* metadata meta at slot s with the slot hashes hashes.
HandlerStatusOf(meta, s, hashes) ==
    get_lookup_table_status(meta.deactivation_slot, U64(s), hashes)

\* The status lookup computes for a table with the metadata meta at slot s.
LookupStatusOf(meta, s) == status(meta, U64(s))

\* From one status of a deactivated table to a later one: Deactivated stays,
\* and the remaining blocks of Deactivating do not grow.
StatusNotBackwards(before, after) ==
    \A b \in {before} : \A a \in {after} :
        /\ a.kind # "Activated"
        /\ b.kind = "Deactivated" => a.kind = "Deactivated"
        /\ (b.kind = "Deactivating" /\ a.kind = "Deactivating") =>
                a.remaining_blocks <= b.remaining_blocks

\* C39: cool-down progress.  Under a clock that keeps advancing a
\* deactivated table eventually has status Deactivated, for the close
\* handler and for lookup, and its authority's close is admitted; from one
\* slot to the next a Deactivated table stays Deactivated and the
\* remaining_blocks of a Deactivating one never increase.  The statuses are
\* functions of the metadata, the slot and the slot hashes: the steps looked
\* at are those that move the clock, and a step that leaves the table's
\* data alone leaves its metadata alone.
C39_CoolDownProgress ==
    /\ TableIsDeactivated ~>
            (/\ Initialized
             /\ LookupStatusOf(TableView.meta, slot) = Deactivated
             /\ HandlerStatusOf(TableView.meta, slot, slot_hashes) = Deactivated
             /\ CloseResult(ValidClose).err = "Ok")
    /\ [][(/\ (slot' # slot \/ slot_hashes' # slot_hashes)
           /\ table'.data = table.data
           /\ TableIsDeactivated) =>
            \A meta \in {TableView.meta} :
                /\ StatusNotBackwards(HandlerStatusOf(meta, slot, slot_hashes),
                                      HandlerStatusOf(meta, slot', slot_hashes'))
                /\ StatusNotBackwards(LookupStatusOf(meta, slot),
                                      LookupStatusOf(meta, slot'))]_vars

\* The table deactivated in slot 1 is Deactivated in slot 514 and its close
\* admitted; one slot earlier the handler still reported one block.
C39_Witness ==
    /\ slot = MAX_ENTRIES + 2
    /\ Initialized
    /\ TableView.meta.deactivation_slot = U64(1)
    /\ HandlerStatusOf(TableView.meta, slot, slot_hashes) = Deactivated
    /\ HandlerStatusOf(TableView.meta, slot - 1, SlotHashesAt(slot - 1)) = Deactivating(1)
    /\ LookupStatusOf(TableView.meta, slot) = Deactivated
    /\ CloseResult(ValidClose).err = "Ok"
    /\ last = [ix |-> "close", err |-> "IncorrectAuthority"]

====
